---------------------------- MODULE Spec2Model ----------------------------
(***************************************************************************)
(* Model of the ay11sutra accessibility-audit backend: the /audit endpoint *)
(* (main.py), the audit graph and its nodes (backend/graph/workflow.py,    *)
(* graph/nodes.py), the guardrails (guardrails/*.py) and the result cache  *)
(* (cache/redis_cache.py, cache/dom_cache.py).                             *)
(*                                                                         *)
(* Text is a sequence of symbols.  A symbol is a one-character string, or  *)
(* a longer string standing for a literal of the source that contains no   *)
(* pattern of the sanitizer and is never split ("<!-- Manual Review -->"). *)
(* Python's None is the one-symbol text None.                              *)
(***************************************************************************)
EXTENDS Integers, Sequences, FiniteSets, TLC

\* ------------------------------------------------------------------ bounds
MaxFrags == 3

\* ------------------------------------------------------------ text helpers
None == <<"None">>
NonStr == <<"NonStr">>

Truthy(x) == x # None /\ x # <<>>

UpperToLower ==
  ("A" :> "a") @@ ("B" :> "b") @@ ("C" :> "c") @@ ("D" :> "d") @@ ("E" :> "e") @@
  ("F" :> "f") @@ ("G" :> "g") @@ ("H" :> "h") @@ ("I" :> "i") @@ ("J" :> "j") @@
  ("K" :> "k") @@ ("L" :> "l") @@ ("M" :> "m") @@ ("N" :> "n") @@ ("O" :> "o") @@
  ("P" :> "p") @@ ("Q" :> "q") @@ ("R" :> "r") @@ ("S" :> "s") @@ ("T" :> "t") @@
  ("U" :> "u") @@ ("V" :> "v") @@ ("W" :> "w") @@ ("X" :> "x") @@ ("Y" :> "y") @@
  ("Z" :> "z")

Lower(c) == IF c \in DOMAIN UpperToLower THEN UpperToLower[c] ELSE c

WordChars ==
  DOMAIN UpperToLower \cup {UpperToLower[c] : c \in DOMAIN UpperToLower}
    \cup {"0", "1", "2", "3", "4", "5", "6", "7", "8", "9", "_"}

IsWord(c) == c \in WordChars
IsSpace(c) == c \in {" ", "\t", "\n", "\r", "\f"}

SetMin(S) == CHOOSE m \in S : \A n \in S : m <= n

\* The element of a one-element set.  The(e : v \in {x}) is e with v bound to
\* the value of x: the assignment of a value to a local variable.
The(S) == CHOOSE r \in S : TRUE

\* Least index j >= i with s[j] = c, or 0.
FirstChar(s, i, c) ==
  LET S == {j \in i..Len(s) : s[j] = c}
  IN  IF S = {} THEN 0 ELSE SetMin(S)

\* The literal lit (lower case) occurs in s at index i, letter case ignored.
MatchLit(s, i, lit) ==
  /\ i >= 1
  /\ i + Len(lit) - 1 <= Len(s)
  /\ \A k \in 1..Len(lit) : Lower(s[i + k - 1]) = lit[k]

FirstLit(s, i, lit) ==
  LET S == {j \in i..Len(s) : MatchLit(s, j, lit)}
  IN  IF S = {} THEN 0 ELSE SetMin(S)

LIT_SCRIPT_OPEN == <<"<", "s", "c", "r", "i", "p", "t">>
LIT_SCRIPT_CLOSE == <<"<", "/", "s", "c", "r", "i", "p", "t", ">">>
LIT_JAVASCRIPT == <<"j", "a", "v", "a", "s", "c", "r", "i", "p", "t", ":">>
LIT_ON == <<"o", "n">>
DQ == "\""
SQ == "'"

\* r'<tag[^>]*>.*?</tag>' (IGNORECASE | DOTALL) matched at index i, with a
\* \b after the tag name when boundary holds: the index of the last matched
\* symbol, or 0 when there is no match at i.
ElementMatchEnd(s, i, open, close, boundary) ==
  IF ~MatchLit(s, i, open) THEN 0
  ELSE LET a == i + Len(open)
       IN  IF boundary /\ a <= Len(s) /\ IsWord(s[a]) THEN 0
           ELSE LET gt == FirstChar(s, a, ">")
                IN  IF gt = 0 THEN 0
                    ELSE LET cl == FirstLit(s, gt + 1, close)
                         IN  IF cl = 0 THEN 0
                             ELSE cl + Len(close) - 1

\* r'<script\b[^>]*>.*?</script>' of the output guard.
ScriptMatchEnd(s, i) ==
  ElementMatchEnd(s, i, LIT_SCRIPT_OPEN, LIT_SCRIPT_CLOSE, TRUE)

\* r'javascript:' (IGNORECASE) matched at index i.
JsMatchEnd(s, i) ==
  IF MatchLit(s, i, LIT_JAVASCRIPT) THEN i + Len(LIT_JAVASCRIPT) - 1 ELSE 0

\* The end of the run of \w symbols starting at index w (w - 1 if empty).
WordRunEnd(s, w) ==
  LET S == {j \in w..Len(s) : ~IsWord(s[j])}
  IN  IF S = {} THEN Len(s) ELSE SetMin(S) - 1

\* r'\son\w+=Q[^Q]*Q' (IGNORECASE) matched at index i, Q the quote q.
HandlerMatchEnd(s, i, q) ==
  IF ~(i <= Len(s) /\ IsSpace(s[i]) /\ MatchLit(s, i + 1, LIT_ON)) THEN 0
  ELSE LET w == i + 3
           e == WordRunEnd(s, w)
       IN  IF e < w \/ e + 2 > Len(s) THEN 0
           ELSE IF s[e + 1] # "=" \/ s[e + 2] # q THEN 0
           ELSE FirstChar(s, e + 3, q)

MatchEnd(kind, s, i) ==
  CASE kind = "script" -> ScriptMatchEnd(s, i)
    [] kind = "js"     -> JsMatchEnd(s, i)
    [] kind = "dq"     -> HandlerMatchEnd(s, i, DQ)
    [] kind = "sq"     -> HandlerMatchEnd(s, i, SQ)

\* re.sub(pattern, '', s): one left-to-right pass from index i, keeping the
\* text up to the leftmost match, removing the match and resuming after it.
RECURSIVE SubFrom(_, _, _)
SubFrom(kind, s, i) ==
  IF i > Len(s) THEN <<>>
  ELSE LET starts == {j \in i..Len(s) : MatchEnd(kind, s, j) # 0}
       IN  IF starts = {} THEN SubSeq(s, i, Len(s))
           ELSE The({SubSeq(s, i, j - 1)
                       \o SubFrom(kind, s, MatchEnd(kind, s, j) + 1) :
                     j \in {SetMin(starts)}})

ReSub(kind, s) == SubFrom(kind, s, 1)

\* ------------------------------------------------------------ output guard
MARKER == "\n<!-- EmpathAI Guard: Unsafe content removed -->"

\* The four substitutions of validate_fix, in the order of the source.
StripUnsafe(fix_code) ==
  ReSub("sq", ReSub("dq", ReSub("js", ReSub("script", fix_code))))

validate_fix_AlwaysMark(fix_code) ==
  IF ~Truthy(fix_code) THEN <<>>
  ELSE StripUnsafe(fix_code) \o <<MARKER>>

validate_fix(fix_code) ==
  IF ~Truthy(fix_code) THEN <<>>
  ELSE LET original_code == fix_code
           stripped == StripUnsafe(fix_code)
       IN  IF stripped # original_code
           THEN stripped \o <<MARKER>>
           ELSE stripped

\* ------------------------------------------------------------ fingerprint
LIT_IFRAME_OPEN == <<"<", "i", "f", "r", "a", "m", "e">>
LIT_IFRAME_CLOSE == <<"<", "/", "i", "f", "r", "a", "m", "e", ">">>
LIT_NOSCRIPT_OPEN == <<"<", "n", "o", "s", "c", "r", "i", "p", "t">>
LIT_NOSCRIPT_CLOSE == <<"<", "/", "n", "o", "s", "c", "r", "i", "p", "t", ">">>
LIT_STYLE_OPEN == <<"<", "s", "t", "y", "l", "e">>
LIT_STYLE_CLOSE == <<"<", "/", "s", "t", "y", "l", "e", ">">>
LIT_COMMENT_OPEN == <<"<", "!", "-", "-">>
LIT_COMMENT_CLOSE == <<"-", "-", ">">>
LIT_DATA == <<"d", "a", "t", "a", "-">>
LIT_ID == <<"i", "d", "=", "\"">>

\* The minimum length of an id value that is treated as a session token.
SessionIdLen == 20

AlnumChars == WordChars \ {"_"}
DataNameChars == WordChars \cup {"-"}

\* The literal occurs in s at index i, in exactly this letter case.
MatchExact(s, i, lit) ==
  /\ i >= 1
  /\ i + Len(lit) - 1 <= Len(s)
  /\ \A k \in 1..Len(lit) : s[i + k - 1] = lit[k]

FirstExact(s, i, lit) ==
  LET S == {j \in i..Len(s) : MatchExact(s, j, lit)}
  IN  IF S = {} THEN 0 ELSE SetMin(S)

\* The end of the run of symbols of the class starting at index w (w - 1 if
\* the run is empty).
RunEnd(s, w, class) ==
  LET S == {j \in w..Len(s) : s[j] \notin class}
  IN  IF S = {} THEN Len(s) ELSE SetMin(S) - 1

SpaceChars == {" ", "\t", "\n", "\r", "\f"}

\* r'<!--.*?-->' (DOTALL) matched at index i.
CommentMatchEnd(s, i) ==
  IF ~MatchExact(s, i, LIT_COMMENT_OPEN) THEN 0
  ELSE LET cl == FirstExact(s, i + Len(LIT_COMMENT_OPEN), LIT_COMMENT_CLOSE)
       IN  IF cl = 0 THEN 0 ELSE cl + Len(LIT_COMMENT_CLOSE) - 1

\* r'\s+data-[a-zA-Z0-9_-]+="[^"]*"' matched at index i.
DataAttrMatchEnd(s, i) ==
  IF ~(i <= Len(s) /\ IsSpace(s[i])) THEN 0
  ELSE LET r == RunEnd(s, i, SpaceChars)
           w == r + 1 + Len(LIT_DATA)
           e == RunEnd(s, w, DataNameChars)
       IN  IF ~MatchExact(s, r + 1, LIT_DATA) THEN 0
           ELSE IF e < w \/ e + 2 > Len(s) THEN 0
           ELSE IF s[e + 1] # "=" \/ s[e + 2] # DQ THEN 0
           ELSE FirstChar(s, e + 3, DQ)

\* r'\s+id="[a-zA-Z0-9]{20,}"' matched at index i.
IdAttrMatchEnd(s, i) ==
  IF ~(i <= Len(s) /\ IsSpace(s[i])) THEN 0
  ELSE LET r == RunEnd(s, i, SpaceChars)
           w == r + 1 + Len(LIT_ID)
           e == RunEnd(s, w, AlnumChars)
       IN  IF ~MatchExact(s, r + 1, LIT_ID) THEN 0
           ELSE IF e - w + 1 < SessionIdLen \/ e + 1 > Len(s) THEN 0
           ELSE IF s[e + 1] # DQ THEN 0
           ELSE e + 1

HashMatchEnd(kind, s, i) ==
  CASE kind = "script" ->
         ElementMatchEnd(s, i, LIT_SCRIPT_OPEN, LIT_SCRIPT_CLOSE, FALSE)
    [] kind = "iframe" ->
         ElementMatchEnd(s, i, LIT_IFRAME_OPEN, LIT_IFRAME_CLOSE, FALSE)
    [] kind = "noscript" ->
         ElementMatchEnd(s, i, LIT_NOSCRIPT_OPEN, LIT_NOSCRIPT_CLOSE, FALSE)
    [] kind = "style" ->
         ElementMatchEnd(s, i, LIT_STYLE_OPEN, LIT_STYLE_CLOSE, FALSE)
    [] kind = "comment" -> CommentMatchEnd(s, i)
    [] kind = "data" -> DataAttrMatchEnd(s, i)
    [] kind = "id" -> IdAttrMatchEnd(s, i)

RECURSIVE HashSubFrom(_, _, _)
HashSubFrom(kind, s, i) ==
  IF i > Len(s) THEN <<>>
  ELSE LET starts == {j \in i..Len(s) : HashMatchEnd(kind, s, j) # 0}
       IN  IF starts = {} THEN SubSeq(s, i, Len(s))
           ELSE The({SubSeq(s, i, j - 1)
                       \o HashSubFrom(kind, s, HashMatchEnd(kind, s, j) + 1) :
                     j \in {SetMin(starts)}})

HashSub(kind, s) == HashSubFrom(kind, s, 1)

\* re.sub(r'\s+', ' ', s)
RECURSIVE CollapseFrom(_, _)
CollapseFrom(s, i) ==
  IF i > Len(s) THEN <<>>
  ELSE LET spaces == {j \in i..Len(s) : IsSpace(s[j])}
       IN  IF spaces = {} THEN SubSeq(s, i, Len(s))
           ELSE The({SubSeq(s, i, j - 1) \o <<" ">>
                       \o CollapseFrom(s, RunEnd(s, j, SpaceChars) + 1) :
                     j \in {SetMin(spaces)}})

\* str.strip()
Strip(s) ==
  LET keep == {j \in 1..Len(s) : ~IsSpace(s[j])}
  IN  IF keep = {} THEN <<>>
      ELSE LET lo == SetMin(keep)
               hi == CHOOSE m \in keep : \A n \in keep : n <= m
           IN  SubSeq(s, lo, hi)

NormalizeDom(html) ==
  LET c1 == HashSub("script", html)
      c2 == HashSub("iframe", c1)
      c3 == HashSub("noscript", c2)
      c4 == HashSub("style", c3)
      c5 == HashSub("comment", c4)
      c6 == HashSub("data", c5)
      c7 == HashSub("id", c6)
  IN  Strip(CollapseFrom(c7, 1))

\* hashlib.sha256(...).hexdigest(): the digest of a text is modelled as the
\* text under a tag, so that different texts have different digests and the
\* digest is never empty (collisions are not modelled).
Sha256Hex(text) == <<"sha256:">> \o text

compute_dom_hash(html) == Sha256Hex(NormalizeDom(html))

\* ------------------------------------------------------------------ dicts
\* A Python dict is a function on the set of its keys.
T(s) == <<s>>
EmptyDict == [k \in {} |-> 0]
Get(d, k, default) == IF k \in DOMAIN d THEN d[k] ELSE default
Merge(d, u) ==
  [k \in DOMAIN d \cup DOMAIN u |-> IF k \in DOMAIN u THEN u[k] ELSE d[k]]
Or(a, b) == IF Truthy(a) THEN a ELSE b

\* ------------------------------------------------------------- input guard
\* A URL is its scheme, its netloc (a sequence of symbols in which a
\* blocklist entry is one symbol), the rest of its first 100 characters and
\* what follows them; the empty string is EmptyUrl.
EmptyUrl == [scheme |-> "", netloc |-> <<>>, path |-> "", tail |-> ""]

BLOCKED_DOMAINS == {"malicious-site.com", "phishing.org", "example-blocked.net"}

validate_input(state) ==
  LET url == Get(state, "url", EmptyUrl)
  IN  IF url = EmptyUrl THEN [error |-> T("URL is missing")]
      ELSE IF url.scheme \notin {"http://", "https://"}
      THEN [error |->
              T("Invalid URL format. Must start with http:// or https://")]
      ELSE IF "[" \in {url.netloc[i] : i \in 1..Len(url.netloc)}
      THEN [error |-> T("URL parsing failed: Invalid IPv6 URL")]
      ELSE IF \E i \in 1..Len(url.netloc) : url.netloc[i] \in BLOCKED_DOMAINS
      THEN [error |->
              T("Domain ") \o url.netloc \o T(" is in the blocklist.")]
      ELSE [url |-> url]

\* -------------------------------------------------------------- rule table
WCAG_RULES ==
  (T("button-name") :>
     [sc |-> T("4.1.2"), level |-> T("A"), since |-> T("2.1"),
      title |-> T("Name, Role, Value"), india_priority |-> T("CRITICAL")]) @@
  (T("color-contrast") :>
     [sc |-> T("1.4.3"), level |-> T("AA"), since |-> T("2.1"),
      title |-> T("Contrast (Minimum)"), india_priority |-> T("CRITICAL")]) @@
  (T("image-alt") :>
     [sc |-> T("1.1.1"), level |-> T("A"), since |-> T("2.1"),
      title |-> T("Non-text Content"), india_priority |-> T("CRITICAL")]) @@
  (T("link-name") :>
     [sc |-> T("2.4.4"), level |-> T("A"), since |-> T("2.1"),
      title |-> T("Link Purpose (In Context)"),
      india_priority |-> T("HIGH")]) @@
  (T("region") :>
     [sc |-> T("Best"), level |-> T("Best"), since |-> T("2.1"),
      title |-> T("Landmark Regions"), india_priority |-> T("MEDIUM")])

GIGW_MAPPING ==
  (T("1.1.1") :> T("9.1.1 (Non-text Content)")) @@
  (T("1.4.3") :> T("9.1.4 (Contrast Minimum)")) @@
  (T("2.4.4") :> T("9.2.4 (Link Purpose)")) @@
  (T("4.1.2") :> T("9.4.1 (Name, Role, Value)"))

enrich_with_wcag(violation) ==
  LET rule_id == Get(violation, "id", T("unknown"))
      data == IF rule_id \in DOMAIN WCAG_RULES THEN WCAG_RULES[rule_id]
              ELSE [sc |-> T("Unknown"), level |-> T("?"), since |-> T("2.1"),
                    title |-> Get(violation, "help", rule_id),
                    india_priority |-> T("LOW")]
      india_priority == data.india_priority
      specific_nodes == Get(violation, "nodes", <<>>)
      wcag_sc == data.sc
      gigw_checkpoint == IF wcag_sc \in DOMAIN GIGW_MAPPING
                         THEN GIGW_MAPPING[wcag_sc]
                         ELSE T("N/A - Best Practice")
  IN  Merge(violation,
            [rule |-> rule_id,
             wcag_sc |-> wcag_sc,
             wcag_title |-> data.title,
             gigw_checkpoint |-> gigw_checkpoint,
             fix_priority |-> IF india_priority = T("CRITICAL")
                              THEN T("HIGH") ELSE T("MEDIUM"),
             specific_nodes |-> specific_nodes,
             india_priority |-> india_priority])

\* ------------------------------------------------------ two-tier classifier
RECURSIVE HeuristicFrom_SeenAll(_, _, _)
HeuristicFrom_SeenAll(issues, i, seen_selectors) ==
  IF i > Len(issues) THEN <<>>
  ELSE LET issue == issues[i]
           rule == Get(issue, "id", <<>>)
           impact == Get(issue, "impact", <<>>)
           selector == Get(issue, "selector", <<>>)
           rest == HeuristicFrom_SeenAll(issues, i + 1,
                                         IF Truthy(selector)
                                         THEN seen_selectors \cup {selector}
                                         ELSE seen_selectors)
       IN  IF \/ rule = T("color-contrast") /\ impact = T("minor")
              \/ rule = T("region")
              \/ Truthy(selector) /\ selector \in seen_selectors
              \/ /\ Get(issue, "nodes", <<>>) = <<>>
                 /\ Get(issue, "specific_nodes", <<>>) = <<>>
           THEN rest
           ELSE <<issue>> \o rest

RECURSIVE HeuristicFrom(_, _, _)
HeuristicFrom(issues, i, seen_selectors) ==
  IF i > Len(issues) THEN <<>>
  ELSE LET issue == issues[i]
           rule == Get(issue, "id", <<>>)
           impact == Get(issue, "impact", <<>>)
           selector == Get(issue, "selector", <<>>)
           rest(seen) == HeuristicFrom(issues, i + 1, seen)
       IN  IF rule = T("color-contrast") /\ impact = T("minor")
           THEN rest(seen_selectors)
           ELSE IF rule = T("region") THEN rest(seen_selectors)
           ELSE IF Truthy(selector) /\ selector \in seen_selectors
           THEN rest(seen_selectors)
           ELSE IF Get(issue, "nodes", <<>>) = <<>>
                   /\ Get(issue, "specific_nodes", <<>>) = <<>>
           THEN rest(seen_selectors)
           ELSE <<issue>> \o
                rest(IF Truthy(selector)
                     THEN seen_selectors \cup {selector}
                     ELSE seen_selectors)

heuristic_filter_Twice(issues) ==
  HeuristicFrom(issues, 1, {}) \o HeuristicFrom(issues, 1, {})

heuristic_filter(issues) ==
  The({HeuristicFrom(list, 1, {}) : list \in {issues}})

\* A reply of the reasoning oracle, after the removal of the markdown fences:
\*   call_failure  the call raises
\*   malformed     the text is not JSON
\*   wrong_shape   JSON of a shape on which the caller's parsing code raises
\*   object        a JSON object, data, of the shape the caller can walk
CallFailure == [kind |-> "call_failure"]
Malformed == [kind |-> "malformed"]
WrongShape == [kind |-> "wrong_shape"]
Object(data) == [kind |-> "object", data |-> data]

\* [issue for i, issue in enumerate(issues) if i in keep_indices]
RECURSIVE KeepFrom(_, _, _)
KeepFrom(issues, i, keep_indices) ==
  IF i > Len(issues) THEN <<>>
  ELSE (IF (i - 1) \in keep_indices THEN <<issues[i]>> ELSE <<>>)
         \o KeepFrom(issues, i + 1, keep_indices)

model_based_filter_NoGuard(USE_MODEL_SLM, issues, reply) ==
  IF reply.kind # "object" THEN [issues |-> issues, calls |-> 1]
  ELSE LET keep == Get(reply.data, "keep_indices", <<>>)
           keep_indices == {keep[k] : k \in 1..Len(keep)}
       IN  [issues |-> KeepFrom(issues, 1, keep_indices), calls |-> 1]

\* The result of model_based_filter and the number of oracle calls it made.
model_based_filter(USE_MODEL_SLM, issues, reply) ==
  IF ~USE_MODEL_SLM \/ Len(issues) = 0 THEN [issues |-> issues, calls |-> 0]
  ELSE IF reply.kind # "object" THEN [issues |-> issues, calls |-> 1]
  ELSE LET keep == Get(reply.data, "keep_indices", <<>>)
           keep_indices == {keep[k] : k \in 1..Len(keep)}
       IN  [issues |-> KeepFrom(issues, 1, keep_indices), calls |-> 1]

fast_critique(USE_MODEL_SLM, issues, reply) ==
  The({IF USE_MODEL_SLM /\ Len(tier1) > 0
       THEN model_based_filter(USE_MODEL_SLM, tier1, reply)
       ELSE [issues |-> tier1, calls |-> 0] :
         tier1 \in {heuristic_filter(issues)}})

\* ------------------------------------------------------------ issue grouper
SnippetCap == 5

GroupIndex(grouped, rule_id) ==
  LET S == {j \in 1..Len(grouped) : grouped[j].rule = rule_id}
  IN  IF S = {} THEN 0 ELSE SetMin(S)

\* One iteration of the loop of critique_issues: grouped after issue.
GroupStep(grouped, issue) ==
  LET rule_id == Get(issue, "rule", T("unknown"))
      idx == GroupIndex(grouped, rule_id)
      g0 == IF idx # 0 THEN grouped
            ELSE Append(grouped,
                   [rule |-> rule_id,
                    description |-> Get(issue, "description", <<>>),
                    wcag_sc |-> Get(issue, "wcag_sc", T("Unknown")),
                    fix_priority |-> Get(issue, "fix_priority", T("LOW")),
                    total_occurrences |-> 0,
                    code_snippets |-> <<>>])
      j == IF idx # 0 THEN idx ELSE Len(g0)
      new_nodes == Get(issue, "specific_nodes", <<>>)
      updated ==
        [g0[j] EXCEPT
           !.total_occurrences = @ + Get(issue, "nodes_affected", 1),
           !.code_snippets = IF Len(@) < SnippetCap THEN @ \o new_nodes
                             ELSE @]
  IN  [g0 EXCEPT ![j] = updated]

RECURSIVE CritiqueFrom(_, _, _)
CritiqueFrom(issues, i, grouped) ==
  IF i > Len(issues) THEN grouped
  ELSE The({CritiqueFrom(issues, i + 1, GroupStep(g, issues[i])) :
              g \in {grouped}})

critique_issues(issues) ==
  The({CritiqueFrom(list, 1, <<>>) : list \in {issues}})

\* --------------------------------------------------------------- the nodes
\* Each node is an operator from the state it reads (and the replies of the
\* collaborators it calls) to the dict it returns, with the number of calls
\* it made.

\* [f(x) for x in xs] for enrich_with_wcag
RECURSIVE EnrichAll(_)
EnrichAll(raw_list) ==
  IF raw_list = <<>> THEN <<>>
  ELSE <<enrich_with_wcag(Head(raw_list))>> \o EnrichAll(Tail(raw_list))

input_guard_node(state) == validate_input(state)

\* result is what scan_page returned, had it been called.
scanner_node(state, result) ==
  IF "error" \in DOMAIN state
  THEN [update |-> [error |-> state["error"]], scans |-> 0]
  ELSE IF "error" \in DOMAIN result
  THEN [update |-> [raw_violations |-> <<>>, screenshot_b64 |-> None,
                    dom_content |-> EmptyDict, tab_log |-> <<>>,
                    dom_hash |-> <<>>],
        scans |-> 1]
  ELSE LET raw_list == Get(result, "violations", <<>>)
           enriched == EnrichAll(raw_list)
           html == Get(result, "html", <<>>)
           dom_hash == IF Truthy(html) THEN compute_dom_hash(html) ELSE <<>>
       IN  [update |-> [raw_violations |-> enriched,
                        screenshot_b64 |-> Get(result, "screenshot", None),
                        dom_content |-> Get(result, "dom_content", EmptyDict),
                        tab_log |-> Get(result, "tab_log", <<>>),
                        dom_hash |-> dom_hash],
            scans |-> 1]

\* The loop of critic_node over the grouped records.
TagSyntax(c) ==
  LET tagged == Merge(c, [category |-> T("syntax")])
      snippets == Get(tagged, "code_snippets", <<>>)
  IN  IF snippets = <<>> THEN tagged
      ELSE LET first == snippets[1]
           IN  Merge(tagged,
                     [html_snippet |->
                        Or(Get(first, "html", <<>>),
                           Get(tagged, "html_snippet", <<>>)),
                      selector |->
                        Or(Get(first, "target", <<>>),
                           Get(tagged, "selector", <<>>))])

TagAll(critiqued) ==
  The({[n \in 1..Len(list) |-> TagSyntax(list[n])] : list \in {critiqued}})

critic_node(USE_MODEL_SLM, state, reply) ==
  LET raw == Get(state, "raw_violations", <<>>)
  IN  The({[update |->
                 [critiqued_issues |->
                    TagAll(critique_issues(filtered.issues))],
               calls |-> filtered.calls] :
                 filtered \in {fast_critique(USE_MODEL_SLM, raw, reply)}})

SemanticIssue(item) ==
  [rule |-> Get(item, "rule", T("semantic-issue")),
   category |-> T("semantic"),
   description |-> Get(item, "description", T("Semantic issue found.")),
   fix_priority |-> T("MEDIUM"),
   wcag_sc |-> T("2.4.4"),
   html_snippet |-> Get(item, "html_snippet", T("Semantic Analysis")),
   selector |-> Get(item, "selector", T("N/A")),
   ai_explanation |-> Get(item, "description", None),
   ai_fixed_code |-> Get(item, "fix", T("Update the text or structure."))]

RECURSIVE SemanticIssues(_)
SemanticIssues(items) ==
  IF items = <<>> THEN <<>>
  ELSE <<SemanticIssue(Head(items))>> \o SemanticIssues(Tail(items))

semantic_node_Propagate(state, reply) ==
  LET content == Get(state, "dom_content", EmptyDict)
      links == Get(content, "links", <<>>)
      headings == Get(content, "headings", <<>>)
  IN  IF links = <<>> /\ headings = <<>>
      THEN [update |-> [semantic_issues |-> <<>>], calls |-> 0,
            raised |-> FALSE]
      ELSE IF reply.kind # "object"
      THEN [update |-> EmptyDict, calls |-> 1, raised |-> TRUE]
      ELSE [update |-> [semantic_issues |->
                          SemanticIssues(Get(reply.data, "issues", <<>>))],
            calls |-> 1, raised |-> FALSE]

semantic_node(state, reply) ==
  LET content == Get(state, "dom_content", EmptyDict)
      links == Get(content, "links", <<>>)
      headings == Get(content, "headings", <<>>)
  IN  IF links = <<>> /\ headings = <<>>
      THEN [update |-> [semantic_issues |-> <<>>], calls |-> 0,
            raised |-> FALSE]
      ELSE IF reply.kind # "object"
      THEN [update |-> [semantic_issues |-> <<>>], calls |-> 1,
            raised |-> FALSE]
      ELSE [update |-> [semantic_issues |->
                          SemanticIssues(Get(reply.data, "issues", <<>>))],
            calls |-> 1, raised |-> FALSE]

\* str(n) for the counts that occur in a trace of at most 15 focus events.
NumStr ==
  <<"1", "2", "3", "4", "5", "6", "7", "8", "9", "10", "11", "12", "13",
    "14", "15">>
ToStr(n) == IF n = 0 THEN "0" ELSE NumStr[n]

NON_INTERACTIVE_TAGS ==
  {T("DIV"), T("SPAN"), T("P"), T("H1"), T("H2"), T("H3"), T("H4"), T("H5"),
   T("H6")}

ShortTraceLen == 5

FilterTag_All(log, tags) == log

\* [item for item in log if P(item)] for the two filters of interaction_node
RECURSIVE FilterTag(_, _)
FilterTag(log, tags) ==
  IF log = <<>> THEN <<>>
  ELSE (IF Get(Head(log), "tag", None) \in tags THEN <<Head(log)>> ELSE <<>>)
         \o FilterTag(Tail(log), tags)

RECURSIVE DuplicateIdFrom_NoBreak(_, _, _)
DuplicateIdFrom_NoBreak(log, i, ids_seen) ==
  IF i > Len(log) THEN <<>>
  ELSE LET elem_id == Get(log[i], "id", None)
       IN  IF ~Truthy(elem_id)
           THEN DuplicateIdFrom_NoBreak(log, i + 1, ids_seen)
           ELSE IF elem_id \in ids_seen
           THEN <<[rule |-> T("duplicate-id-focusable"),
                   category |-> T("interaction"),
                   html_snippet |-> T("<... id='") \o elem_id \o T("'>")]>>
                  \o DuplicateIdFrom_NoBreak(log, i + 1, ids_seen)
           ELSE DuplicateIdFrom_NoBreak(log, i + 1, ids_seen \cup {elem_id})

\* The duplicate-id loop: the issue list it appends, [] or one issue.
RECURSIVE DuplicateIdFrom(_, _, _)
DuplicateIdFrom(log, i, ids_seen) ==
  IF i > Len(log) THEN <<>>
  ELSE LET elem_id == Get(log[i], "id", None)
       IN  IF ~Truthy(elem_id) THEN DuplicateIdFrom(log, i + 1, ids_seen)
           ELSE IF elem_id \in ids_seen
           THEN <<[rule |-> T("duplicate-id-focusable"),
                   category |-> T("interaction"),
                   fix_priority |-> T("CRITICAL"),
                   wcag_sc |-> T("4.1.1"),
                   description |->
                     T("Duplicate ID '") \o elem_id \o
                     T("' found on focusable elements. This breaks assistive technology."),
                   html_snippet |-> T("<... id='") \o elem_id \o T("'>"),
                   ai_explanation |->
                     T("IDs must be unique on a page. Duplicate IDs on focusable elements confuse screen readers and keyboard navigation."),
                   ai_fixed_code |->
                     T("Change one of the elements to use a unique ID, e.g., id='")
                       \o elem_id \o T("-2'")]>>
           ELSE DuplicateIdFrom(log, i + 1, ids_seen \cup {elem_id})

interaction_node_AfterVision(state) ==
  [update |-> [interaction_issues |-> Get(state, "vision_issues", <<>>)]]

interaction_node(state) ==
  LET log == Get(state, "tab_log", <<>>)
      body_focus == FilterTag(log, {T("BODY")})
      non_interactive_focused == FilterTag(log, NON_INTERACTIVE_TAGS)
      issue1 ==
        IF Len(body_focus) > 1
        THEN <<[rule |-> T("keyboard-focus-lost"),
                category |-> T("interaction"),
                fix_priority |-> T("CRITICAL"),
                wcag_sc |-> T("2.4.7"),
                description |->
                  <<"Focus lost to <body> tag ", ToStr(Len(body_focus)),
                    " times during keyboard navigation. This indicates a focus trap or missing focus management.">>,
                html_snippet |-> T("Focus management issue detected"),
                ai_explanation |->
                  T("When users press Tab, focus should move to the next interactive element. If focus jumps to <body>, users lose track of where they are on the page."),
                ai_fixed_code |->
                  T("Ensure all interactive elements are keyboard accessible. Add tabindex='0' to custom interactive elements or use semantic HTML like <button> instead of <div>.")]>>
        ELSE <<>>
      issue2 ==
        IF non_interactive_focused # <<>>
        THEN <<[rule |-> T("non-interactive-tabindex"),
                category |-> T("interaction"),
                fix_priority |-> T("MEDIUM"),
                wcag_sc |-> T("2.4.3"),
                description |->
                  <<"Found ", ToStr(Len(non_interactive_focused)),
                    " non-interactive elements with keyboard focus, which can confuse keyboard users.">>,
                html_snippet |->
                  T("<") \o Get(non_interactive_focused[1], "tag", None)
                    \o T(" tabindex='...'>"),
                ai_explanation |->
                  T("Non-interactive elements (div, span, p) should not receive keyboard focus unless they have an interactive role."),
                ai_fixed_code |->
                  T("Remove tabindex from non-interactive elements or add appropriate ARIA roles like role='button' if they are meant to be interactive.")]>>
        ELSE <<>>
      issue3 ==
        IF Len(log) < ShortTraceLen
        THEN <<[rule |-> T("limited-keyboard-access"),
                category |-> T("interaction"),
                fix_priority |-> T("HIGH"),
                wcag_sc |-> T("2.1.1"),
                description |->
                  <<"Only ", ToStr(Len(log)),
                    " elements are keyboard accessible. This page may have insufficient keyboard navigation.">>,
                html_snippet |-> T("Page-wide keyboard accessibility issue"),
                ai_explanation |->
                  T("A typical page should have many focusable elements (links, buttons, form inputs). Very few focusable elements suggests missing keyboard access."),
                ai_fixed_code |->
                  T("Ensure all interactive elements (buttons, links, form controls) are keyboard accessible. Avoid using <div> or <span> for interactive elements without proper tabindex and ARIA roles.")]>>
        ELSE <<>>
  IN  IF log = <<>> THEN [update |-> [interaction_issues |-> <<>>]]
      ELSE [update |->
              [interaction_issues |->
                 issue1 \o issue2 \o issue3 \o DuplicateIdFrom(log, 1, {})]]

VisionIssue(i) ==
  [rule |-> T("visual-ai-scan"),
   category |-> T("visual"),
   fix_priority |-> T("HIGH"),
   wcag_sc |-> T("1.4.3"),
   description |-> Get(i, "description", None),
   html_snippet |-> T("Visual Detection"),
   ai_explanation |-> Get(i, "explanation", None),
   ai_fixed_code |-> T("Check CSS contrast/spacing.")]

RECURSIVE VisionIssues(_)
VisionIssues(items) ==
  IF items = <<>> THEN <<>>
  ELSE <<VisionIssue(Head(items))>> \o VisionIssues(Tail(items))

vision_analyzer_node(state, reply) ==
  LET screenshot_b64 == Get(state, "screenshot_b64", None)
  IN  IF ~Truthy(screenshot_b64)
      THEN [update |-> [vision_issues |-> <<>>], calls |-> 0]
      ELSE IF reply.kind # "object"
      THEN [update |-> [vision_issues |-> <<>>], calls |-> 1]
      ELSE [update |-> [vision_issues |->
                          VisionIssues(Get(reply.data, "vision_issues", <<>>))],
            calls |-> 1]

\* ------------------------------------------------------------------- fixer
\* a.lower() in b.lower(), a not empty
IsSubstrCI(a, b) ==
  \E i \in 1..(Len(b) - Len(a) + 1) :
    \A k \in 1..Len(a) : Lower(b[i + k - 1]) = Lower(a[k])

\* re.search(r"'(.*?)'", desc): group 1 of the match, "" without a match
QuotedText(desc) ==
  LET q1 == FirstChar(desc, 1, SQ)
      q2 == IF q1 = 0 THEN 0 ELSE FirstChar(desc, q1 + 1, SQ)
  IN  IF q2 = 0 THEN <<>> ELSE SubSeq(desc, q1 + 1, q2 - 1)

\* The first captured element whose text contains search_text, or 0.
FirstElement(interactive_elements, search_text) ==
  LET S == {j \in 1..Len(interactive_elements) :
              IsSubstrCI(search_text, interactive_elements[j]["text"])}
  IN  IF S = {} THEN 0 ELSE SetMin(S)

\* The reverse lookup of a visual issue: the issue, updated in place when an
\* element matches.
SmartLookup(issue, interactive_elements) ==
  LET desc == Get(issue, "description", <<>>)
      snippet == Get(issue, "html_snippet", <<>>)
      category == Get(issue, "category", <<>>)
      search_text == QuotedText(desc)
      j == FirstElement(interactive_elements, search_text)
  IN  IF category = T("visual")
         /\ (~Truthy(snippet)
             \/ \E n \in 1..Len(snippet) : snippet[n] = "Visual Detection")
         /\ Truthy(search_text) /\ j # 0
      THEN Merge(issue,
                 [html_snippet |-> interactive_elements[j]["html"],
                  selector |->
                    T("<") \o interactive_elements[j]["tag"]
                      \o T("> containing '") \o search_text \o T("'")])
      ELSE issue

\* The reverse lookup raises: re.search on a description that is None.
SmartLookupRaises(issue) ==
  LET snippet == Get(issue, "html_snippet", <<>>)
  IN  /\ Get(issue, "category", <<>>) = T("visual")
      /\ (~Truthy(snippet)
          \/ \E n \in 1..Len(snippet) : snippet[n] = "Visual Detection")
      /\ Get(issue, "description", <<>>) = None

AlreadyFixed_Never(issue) == FALSE

AlreadyFixed(issue) ==
  LET fixed == Get(issue, "ai_fixed_code", None)
  IN  Truthy(fixed) /\ fixed # T("<!-- Fix -->")

ManualReview(issue) ==
  Merge(issue, [ai_explanation |-> T("Manual review recommended."),
                ai_fixed_code |-> T("<!-- Manual Review -->")])

\* One iteration of the loop of fixer_node on an issue that is not already
\* fixed: the issue appended to final_report, the raw fix taken from the
\* oracle's reply and the output of the sanitizer, if any.
FixIssue(issue, reply, interactive_elements) ==
  LET looked == SmartLookup(issue, interactive_elements)
  IN  IF reply.kind # "object"
      THEN [issue |-> ManualReview(looked), raw |-> {}, clean |-> {}]
      ELSE LET ai_data == reply.data
               raw_fix == Get(ai_data, "fixed_code", T("<!-- Check CSS -->"))
           IN  IF raw_fix = NonStr
               THEN [issue |-> ManualReview(looked), raw |-> {}, clean |-> {}]
               ELSE [issue |->
                       Merge(looked,
                             [ai_explanation |->
                                Get(ai_data, "explanation",
                                    T("AI Explanation")),
                              ai_fixed_code |-> validate_fix(raw_fix)]),
                     raw |-> IF "fixed_code" \in DOMAIN ai_data
                             THEN {raw_fix} ELSE {},
                     clean |-> {validate_fix(raw_fix)}]

\* The loop of fixer_node from issue i on, replies being the oracle's replies
\* to the calls still to come.
RECURSIVE FixFrom(_, _, _, _)
FixFrom(all_issues, i, replies, interactive_elements) ==
  IF i > Len(all_issues)
  THEN [final_report |-> <<>>, calls |-> 0, raw |-> {}, clean |-> {},
        raised |-> FALSE]
  ELSE LET issue == all_issues[i]
       IN  IF AlreadyFixed(issue)
           THEN LET rest == FixFrom(all_issues, i + 1, replies,
                                    interactive_elements)
                IN  [rest EXCEPT !.final_report = <<issue>> \o @]
           ELSE IF SmartLookupRaises(issue)
           THEN [final_report |-> <<>>, calls |-> 0, raw |-> {},
                 clean |-> {}, raised |-> TRUE]
           ELSE The({[final_report |-> <<one.issue>> \o rest.final_report,
                      calls |-> 1 + rest.calls,
                      raw |-> one.raw \cup rest.raw,
                      clean |-> one.clean \cup rest.clean,
                      raised |-> rest.raised] :
                       one \in {FixIssue(issue, Head(replies),
                                         interactive_elements)},
                       rest \in {FixFrom(all_issues, i + 1, Tail(replies),
                                         interactive_elements)}})

AllIssues_SemanticFirst(state) ==
  Get(state, "semantic_issues", <<>>) \o Get(state, "critiqued_issues", <<>>)
    \o Get(state, "vision_issues", <<>>)
    \o Get(state, "interaction_issues", <<>>)

AllIssues(state) ==
  Get(state, "critiqued_issues", <<>>) \o Get(state, "vision_issues", <<>>)
    \o Get(state, "semantic_issues", <<>>)
    \o Get(state, "interaction_issues", <<>>)

\* The number of issues for which fixer_node calls the oracle.
RECURSIVE CountUnfixed(_)
CountUnfixed(issues) ==
  IF issues = <<>> THEN 0
  ELSE (IF AlreadyFixed(Head(issues)) THEN 0 ELSE 1)
         + CountUnfixed(Tail(issues))

\* fixer_node changes the issues in place: the dicts held by the four issue
\* lists of the state are the ones appended to final_report.
fixer_node(state, replies) ==
  LET dom_content == Get(state, "dom_content", EmptyDict)
      interactive_elements == Get(dom_content, "interactive", <<>>)
      n1 == Len(Get(state, "critiqued_issues", <<>>))
      n2 == n1 + Len(Get(state, "vision_issues", <<>>))
      n3 == n2 + Len(Get(state, "semantic_issues", <<>>))
      n4 == n3 + Len(Get(state, "interaction_issues", <<>>))
      inplace(final_report) ==
        [k \in DOMAIN state \cap
               {"critiqued_issues", "vision_issues", "semantic_issues",
                "interaction_issues"} |->
           CASE k = "critiqued_issues" -> SubSeq(final_report, 1, n1)
             [] k = "vision_issues" -> SubSeq(final_report, n1 + 1, n2)
             [] k = "semantic_issues" -> SubSeq(final_report, n2 + 1, n3)
             [] k = "interaction_issues" ->
                  SubSeq(final_report, n3 + 1, n4)]
  IN  The({[update |-> [final_report |-> done.final_report],
            inplace |-> IF done.raised THEN EmptyDict
                        ELSE inplace(done.final_report),
            calls |-> done.calls, raw |-> done.raw, clean |-> done.clean,
            raised |-> done.raised] :
             done \in {FixFrom(AllIssues(state), 1, replies,
                               interactive_elements)}})

\* --------------------------------------------------------- payload corpus
Fragments ==
  {<<"j", "a", "v", "a">>,
   <<"s", "c", "r", "i", "p", "t", ":">>,
   <<"J", "a", "v", "a", "S", "c", "r", "i", "p", "t", ":">>,
   <<"<", "s", "c", "r", "i", "p", "t", ">">>,
   <<"<", "/", "S", "C", "R", "I", "P", "T", ">">>,
   <<"<", "s", "c", "r">>,
   <<"i", "p", "t", ">">>,
   <<" ", "o", "n", "c", "l", "i", "c", "k", "=", "\"", "e", "\"">>,
   <<"\n", "O", "n", "l", "o", "a", "d", "=", "'", "e", "'">>,
   <<"\"", "o", "n", "c", "l", "i", "c", "k", "=", "\"", "e", "\"">>,
   <<"o", "k">>}

DivEvil ==
  <<"<", "d", "i", "v", " ", "o", "n", "c", "l", "i", "c", "k", "=", "\"",
    "e", "v", "i", "l", "(", ")", "\"", ">", "B", "u", "y", "<", "/", "d",
    "i", "v", ">">>
DivClean ==
  <<"<", "d", "i", "v", ">", "B", "u", "y", "<", "/", "d", "i", "v", ">">>

RECURSIVE Concats(_)
Concats(n) ==
  IF n = 0 THEN {<<>>}
  ELSE LET shorter == Concats(n - 1)
       IN  shorter \cup {p \o f : p \in shorter, f \in Fragments}

Payloads == Concats(MaxFrags) \cup {DivEvil, DivClean}

BtnFix ==
  <<"<", "b", "u", "t", "t", "o", "n", ">", "B", "u", "y", "<", "/", "b",
    "u", "t", "t", "o", "n", ">">>

\* ------------------------------------------------------------- audit graph
\* The keys of AuditState.  StateGraph(AuditState) holds one channel per key
\* of the schema: what a node returns is written to the channels of the keys
\* it names, and a key outside the schema has no channel to be written to.
Channels ==
  {"url", "screenshot_b64", "dom_hash", "raw_violations", "dom_content",
   "tab_log", "critiqued_issues", "vision_issues", "semantic_issues",
   "interaction_issues", "final_report"}

ApplyUpdate(state, update) ==
  Merge(state, [k \in DOMAIN update \cap Channels |-> update[k]])

\* The chain of create_audit_graph.
NodeOrder ==
  <<"input_guard", "scanner", "critic", "semantic", "interaction", "vision",
    "fixer">>

NextNode(node) ==
  CASE node = "input_guard" -> "scanner"
    [] node = "scanner" -> "critic"
    [] node = "critic" -> "semantic"
    [] node = "semantic" -> "interaction"
    [] node = "interaction" -> "vision"
    [] node = "vision" -> "fixer"
    [] node = "fixer" -> "END"

\* ------------------------------------------------- evidence and oracle replies
U_ok ==
  [scheme |-> "https://", netloc |-> <<"example.com">>, path |-> "",
   tail |-> ""]
U_blocked ==
  [scheme |-> "https://", netloc |-> <<"malicious-site.com">>, path |-> "",
   tail |-> ""]
U_ftp ==
  [scheme |-> "ftp://", netloc |-> <<"example.com">>, path |-> "",
   tail |-> ""]

Urls == {U_ok, U_blocked, U_ftp, EmptyUrl}

HTML_A ==
  <<"<", "p", " ", "i", "d", "=", "\"", "m", "\"", ">", "H", "i", "<", "/",
    "p", ">">>
HTML_A2 ==
  <<"<", "p", " ", "i", "d", "=", "\"", "m", "\"", " ", " ", "d", "a", "t",
    "a", "-", "t", "=", "\"", "9", "\"", ">", "H", "i", "<", "/", "p", ">",
    "\n", "<", "s", "c", "r", "i", "p", "t", ">", "t", "(", ")", "<", "/",
    "s", "c", "r", "i", "p", "t", ">">>
HTML_B ==
  <<"<", "p", " ", "i", "d", "=", "\"", "m", "\"", ">", "H", "i", "<", "/",
    "p", ">", "<", "a", ">", "B", "u", "y", "<", "/", "a", ">">>

V_image_alt ==
  [id |-> T("image-alt"), impact |-> T("critical"),
   description |-> T("Images must have alternate text"), count |-> 1,
   nodes |-> <<[html |-> T("<img src=\"a.png\">"), target |-> T("img")]>>]
V_region ==
  [id |-> T("region"), impact |-> T("moderate"),
   description |-> T("All page content should be contained by landmarks"),
   count |-> 1,
   nodes |-> <<[html |-> T("<p id=\"m\">Hi</p>"), target |-> T("#m")]>>]
V_link_name ==
  [id |-> T("link-name"), impact |-> T("serious"),
   description |-> T("Links must have discernible text"), count |-> 1,
   nodes |-> <<[html |-> T("<a>Buy</a>"), target |-> T("a")]>>]

Link1 ==
  [text |-> T("Click here"), href |-> T("https://example.com/a"),
   html |-> T("<a href=\"/a\">Click here</a>"), selector |-> T("a")]

TraceShort ==
  <<[tag |-> T("A"), text |-> T("Home"), id |-> T("home")],
    [tag |-> T("DIV"), text |-> T("Menu"), id |-> <<>>],
    [tag |-> T("A"), text |-> T("Buy"), id |-> T("home")]>>

ScanError ==
  [error |-> T("net::ERR_NAME_NOT_RESOLVED"), violations |-> <<>>,
   screenshot |-> None, dom_content |-> EmptyDict, tab_log |-> <<>>]

ScanOk(violations, screenshot, html, dom_content, tab_log) ==
  [violations |-> violations, screenshot |-> screenshot,
   title |-> T("Example"), html |-> html, dom_content |-> dom_content,
   tab_log |-> tab_log]

Page1 ==
  ScanOk(<<V_image_alt>>, T("iVBORw0KGgo="), HTML_A,
         [links |-> <<Link1>>, headings |-> <<>>], TraceShort)
Page2 ==
  ScanOk(<<V_region, V_image_alt, V_link_name>>, None, HTML_A2,
         [links |-> <<>>, headings |-> <<>>], <<>>)
Page3 ==
  ScanOk(<<>>, T("iVBORw0KGgo="), HTML_B,
         [links |-> <<>>, headings |-> <<>>], <<>>)

\* What scan_page can return for a URL: the browser loads http and https
\* pages only, and any navigation can fail.
ScanResults(url) ==
  IF url.scheme \notin {"http://", "https://"} THEN {ScanError}
  ELSE {ScanError, Page1, Page2, Page3}

SI_full ==
  [rule |-> T("semantic-link"), description |-> T("Vague link text"),
   fix |-> DivEvil, selector |-> T("a"),
   html_snippet |-> T("<a href=\"/a\">Click here</a>")]
SI_bare == [rule |-> T("heading-empty")]
SI_nullfix ==
  [rule |-> T("heading-structure"), description |-> T("H1 to H3 skip"),
   fix |-> None]

VI_full ==
  [description |-> T("Low contrast text"),
   explanation |-> T("Contrast ratio below 4.5:1")]
VI_bare == [description |-> T("Overlapping elements")]

Tier2Replies ==
  {CallFailure, Malformed, WrongShape, Object(EmptyDict),
   Object([keep_indices |-> <<0>>]),
   Object([keep_indices |-> <<1, 7, -1, 1>>])}

SemanticReplies ==
  {CallFailure, Malformed, WrongShape, Object(EmptyDict),
   Object([issues |-> <<SI_full>>]),
   Object([issues |-> <<SI_bare, SI_nullfix>>])}

VisionReplies ==
  {CallFailure, Malformed, WrongShape,
   Object([vision_issues |-> <<VI_full>>]),
   Object([vision_issues |-> <<VI_bare>>])}

FixerReplies ==
  {CallFailure, Malformed, WrongShape,
   Object([explanation |-> T("Add a name"), fixed_code |-> DivEvil]),
   Object([explanation |-> None, fixed_code |-> BtnFix]),
   Object(EmptyDict),
   Object([explanation |-> T("Add a name"), fixed_code |-> NonStr]),
   Object([fixed_code |-> None])}

\* ------------------------------------------------------------- cache store
CACHE_TTL == 86400
RECENT_TTL == 300

\* The text of a URL, and url[:100].
UrlStr(u) == <<u.scheme>> \o u.netloc \o <<u.path, u.tail>>
Url100(u) == [u EXCEPT !.tail = ""]

\* dom_hash[:16]: the first 16 digits of the digest, "" for the empty hash.
Hex16(dom_hash) ==
  IF dom_hash = <<>> THEN <<>> ELSE <<"hex16:">> \o Tail(dom_hash)

\* hashlib.md5(url.encode()).hexdigest()
Md5Hex(url) == <<"md5:">> \o UrlStr(url)

_get_cache_key(url, dom_hash) ==
  <<"audit:">> \o Hex16(dom_hash) \o <<":">> \o UrlStr(Url100(url))

_get_url_key(url) == <<"audit:recent:">> \o Md5Hex(url)

\* json.dumps gives a text that json.loads reads back; Garbage is a stored
\* text that is not JSON, on which json.loads raises.
JsonDumps(v) == [json |-> v]
Garbage == [garbage |-> TRUE]
Decodes(s) == "json" \in DOMAIN s
JsonLoads(s) == s.json

Put(d, k, v) == [x \in DOMAIN d \cup {k} |-> IF x = k THEN v ELSE d[x]]
Del(d, k) == [x \in DOMAIN d \ {k} |-> d[x]]

Miss == [hit |-> FALSE, value |-> EmptyDict]
Hit(v) == [hit |-> TRUE, value |-> v]

\* An exception that leaves the function.
Raise == [hit |-> FALSE, value |-> EmptyDict, raises |-> TRUE]

CacheRead_Unguarded(client, get_ok, store, memory, cache_key) ==
  IF client
  THEN IF ~get_ok THEN Raise
       ELSE IF cache_key \notin DOMAIN store THEN Miss
       ELSE IF Decodes(store[cache_key].data)
       THEN Hit(JsonLoads(store[cache_key].data))
       ELSE Raise
  ELSE IF cache_key \in DOMAIN memory THEN Hit(memory[cache_key]) ELSE Miss

\* The read shared by get_cached_result and get_recent_audit: with a client
\* the answer is Redis's, and a call of Redis or of json.loads that raises is
\* caught and ends in the miss of the last line; without a client the answer
\* is the in-memory dict's.
CacheRead(client, get_ok, store, memory, cache_key) ==
  IF client
  THEN IF ~get_ok THEN Miss
       ELSE IF cache_key \notin DOMAIN store THEN Miss
       ELSE IF Decodes(store[cache_key].data)
       THEN Hit(JsonLoads(store[cache_key].data))
       ELSE Miss
  ELSE IF cache_key \in DOMAIN memory THEN Hit(memory[cache_key]) ELSE Miss

\* The write shared by save_cached_result and save_recent_audit: setex with
\* a client, the in-memory dict without one or when setex failed.
CacheWrite(client, set_ok, store, memory, cache_key, ttl, result, now) ==
  IF client /\ set_ok
  THEN [store |-> Put(store, cache_key,
                      [data |-> JsonDumps(result), ttl |-> ttl,
                       written |-> now]),
        memory |-> memory]
  ELSE [store |-> store, memory |-> Put(memory, cache_key, result)]

get_cached_result(client, get_ok, store, memory, url, dom_hash) ==
  CacheRead(client, get_ok, store, memory, _get_cache_key(url, dom_hash))

save_cached_result(client, set_ok, store, memory, url, dom_hash, result, now) ==
  CacheWrite(client, set_ok, store, memory, _get_cache_key(url, dom_hash),
             CACHE_TTL, result, now)

get_recent_audit(client, get_ok, store, memory, url) ==
  CacheRead(client, get_ok, store, memory, _get_url_key(url))

save_recent_audit(client, set_ok, store, memory, url, result, ttl, now) ==
  CacheWrite(client, set_ok, store, memory, _get_url_key(url), ttl, result,
             now)

\* A Redis key may expire when no key of the store expires before it: the
\* keys are written in the order of their stamps, and a key of the longer
\* time to live outlives a key of the shorter one written with or before it.
MayExpire(store, k) ==
  \A j \in DOMAIN store \ {k} :
    \/ store[j].written > store[k].written
    \/ /\ store[j].written = store[k].written
       /\ store[j].ttl >= store[k].ttl
    \/ /\ store[j].written < store[k].written
       /\ store[j].ttl > store[k].ttl

\* ------------------------------------------------------- a run of the graph
\* What one node of the chain gives on state: the update it returns, the
\* issues it changed in place, the scans and the oracle calls it made.
RunNode(node, USE_MODEL_SLM, state, world) ==
  LET Out(o) ==
        [update |-> o.update,
         inplace |-> IF "inplace" \in DOMAIN o THEN o.inplace ELSE EmptyDict,
         scans |-> IF "scans" \in DOMAIN o THEN o.scans ELSE 0,
         calls |-> IF "calls" \in DOMAIN o THEN o.calls ELSE 0]
  IN  CASE node = "input_guard" ->
             Out([update |-> input_guard_node(state)])
        [] node = "scanner" -> Out(scanner_node(state, world.result))
        [] node = "critic" ->
             Out(critic_node(USE_MODEL_SLM, state, world.tier2))
        [] node = "semantic" -> Out(semantic_node(state, world.sem))
        [] node = "interaction" -> Out(interaction_node(state))
        [] node = "vision" -> Out(vision_analyzer_node(state, world.vis))
        [] node = "fixer" ->
             Out(fixer_node(state,
                            [n \in 1..CountUnfixed(AllIssues(state)) |->
                               world.fix]))

\* The run so far after node gave out: its return written to the state.
RunStep(run, node, out, world) ==
  [final_state |->
     ApplyUpdate(Merge(run.final_state, out.inplace), out.update),
   guard |-> IF node = "input_guard" THEN out.update ELSE run.guard,
   scan |-> IF node = "scanner" /\ out.scans # 0 THEN world.result
            ELSE run.scan,
   scans |-> run.scans + out.scans,
   calls |-> run.calls + out.calls,
   ran |-> Append(run.ran, node)]

RECURSIVE RunFrom(_, _, _, _)
RunFrom(USE_MODEL_SLM, world, i, run) ==
  IF i > Len(NodeOrder) THEN run
  ELSE RunFrom(USE_MODEL_SLM, world, i + 1,
               The({RunStep(run, NodeOrder[i], out, world) :
                      out \in {RunNode(NodeOrder[i], USE_MODEL_SLM,
                                       run.final_state, world)}}))

\* The requests and the worlds of the endpoint's specification.  In a world
\* the oracle answers every call of the request (Up) or fails them all.
ApiUrls == {U_ok, U_blocked}

Up(result) ==
  [result |-> result,
   tier2 |-> Object([keep_indices |-> <<0>>]),
   sem |-> Object([issues |-> <<SI_full>>]),
   vis |-> Object([vision_issues |-> <<VI_full>>]),
   fix |-> Object([explanation |-> T("Add a name"), fixed_code |-> DivEvil])]

Down(result) ==
  [result |-> result, tier2 |-> CallFailure, sem |-> CallFailure,
   vis |-> CallFailure, fix |-> CallFailure]

ApiWorlds == {Down(ScanError), Up(Page1), Up(Page2), Down(Page3)}

RunStart(initial_state) ==
  [final_state |-> initial_state, guard |-> EmptyDict, scan |-> EmptyDict,
   scans |-> 0, calls |-> 0, ran |-> <<>>]

\* audit_graph.ainvoke(initial_state): the seven nodes in the order of the
\* chain, each node's return written to the state.  world holds what the
\* collaborators give: the scan's result and the oracle's replies to the
\* classifier (tier2), the semantic analyzer (sem), the visual analyzer (vis)
\* and every call of the fixer (fix).
audit_graph_ainvoke(USE_MODEL_SLM, initial_state, world) ==
  RunFrom(USE_MODEL_SLM, world, 1, RunStart(initial_state))

\* ---------------------------------------------------------------- variables
VARIABLES
  use_model_slm,  \* USE_MODEL_SLM of fast_critic.py, read from the environment
  state,          \* the AuditState of the run: a dict on a subset of Channels
  pc,             \* the node of the graph that runs next, "END" after the last
  ran,            \* the nodes that have run, in order
  guardOut,       \* what validate_input returned in this run
  scanOut,        \* what scan_page returned in this run
  scanCalls,      \* the number of calls of scan_page in this run
  oracleCalls,    \* the number of calls of the reasoning oracle in this run
  failed,         \* the nodes whose oracle call failed in this run
  rawFixes,       \* the fix texts taken from replies of the oracle in this run
  cleanFixes,     \* the texts returned by validate_fix in this run
  raised,         \* a node of this run raised an exception
  redis_client,   \* redis_cache.redis_client is set
  redis,          \* the keys held by Redis
  memory_cache,   \* redis_cache._memory_cache
  request,        \* the AuditRequest being answered, or the last one answered
  response,       \* what start_audit returned for it
  served,         \* where the response came from: "recent", "content", "fresh"
  nreq,           \* the number of requests answered
  fix_in, fix_out, san_pc,  \* a call of validate_fix on its own
  call,           \* a call of one function of the program on its own
  ret,            \* Ret(v) when the call returned v, Pending before
  audits          \* the requests being answered at the same time, by name

graphVars ==
  <<state, pc, ran, guardOut, scanOut, scanCalls, oracleCalls, failed,
    rawFixes, cleanFixes, raised>>
apiVars ==
  <<redis_client, redis, memory_cache, request, response, served, nreq>>
sanVars == <<fix_in, fix_out, san_pc>>
fnVars == <<call, ret>>
vars == <<use_model_slm, graphVars, apiVars, sanVars, fnVars, audits>>

SanIdle == fix_in = <<>> /\ fix_out = <<>> /\ san_pc = "idle"

NoCall == [op |-> "none"]
Pending == [done |-> FALSE]
Ret(v) == [done |-> TRUE, val |-> v]
FnIdle == call = NoCall /\ ret = Pending
ConcIdle == audits = <<>>

NoRequest == [url |-> EmptyUrl, force_rescan |-> FALSE]
NoResponse == [status |-> "none"]

ApiIdle ==
  /\ redis_client = FALSE
  /\ redis = EmptyDict
  /\ memory_cache = EmptyDict
  /\ request = NoRequest
  /\ response = NoResponse
  /\ served = "none"
  /\ nreq = 0

\* The graph before ainvoke(initial_state) of a request for url.
GraphStart(url) ==
  /\ state = [url |-> url]
  /\ pc = "input_guard"
  /\ ran = <<>>
  /\ guardOut = EmptyDict
  /\ scanOut = EmptyDict
  /\ scanCalls = 0
  /\ oracleCalls = 0
  /\ failed = {}
  /\ rawFixes = {}
  /\ cleanFixes = {}
  /\ raised = FALSE

\* --------------------------------------------------- the graph, node by node
Init ==
  /\ use_model_slm \in BOOLEAN
  /\ \E url \in Urls : GraphStart(url)
  /\ ApiIdle
  /\ SanIdle
  /\ FnIdle
  /\ ConcIdle

\* A node returned update: the graph writes it and moves to the next node.
Advance(node, update) ==
  /\ state' = ApplyUpdate(state, update)
  /\ pc' = NextNode(node)
  /\ ran' = Append(ran, node)

\* The node's call of the oracle, if it made one, failed.
Failure(node, calls, reply) ==
  IF calls > 0 /\ reply.kind # "object" THEN {node} ELSE {}

InputGuard ==
  /\ pc = "input_guard" /\ ~raised
  /\ \E out \in {input_guard_node(state)} :
       /\ guardOut' = out
       /\ Advance("input_guard", out)
  /\ UNCHANGED <<scanOut, scanCalls, oracleCalls, failed, rawFixes,
                 cleanFixes, raised, use_model_slm, apiVars, sanVars, fnVars,
                 audits>>

Scanner ==
  /\ pc = "scanner" /\ ~raised
  /\ \E result \in ScanResults(state["url"]) :
       \E out \in {scanner_node(state, result)} :
           /\ scanOut' = IF out.scans = 0 THEN scanOut ELSE result
           /\ scanCalls' = scanCalls + out.scans
           /\ Advance("scanner", out.update)
  /\ UNCHANGED <<guardOut, oracleCalls, failed, rawFixes, cleanFixes, raised,
                 use_model_slm, apiVars, sanVars, fnVars,
                 audits>>

Critic ==
  /\ pc = "critic" /\ ~raised
  /\ \E reply \in Tier2Replies :
       \E out \in {critic_node(use_model_slm, state, reply)} :
           /\ oracleCalls' = oracleCalls + out.calls
           /\ failed' = failed \cup Failure("critic", out.calls, reply)
           /\ Advance("critic", out.update)
  /\ UNCHANGED <<guardOut, scanOut, scanCalls, rawFixes, cleanFixes, raised,
                 use_model_slm, apiVars, sanVars, fnVars,
                 audits>>

\* The fix texts that semantic_node copies from the oracle's reply.
RawSemanticFixes(reply) ==
  IF reply.kind # "object" THEN {}
  ELSE LET items == Get(reply.data, "issues", <<>>)
       IN  {items[i]["fix"] :
              i \in {j \in 1..Len(items) : "fix" \in DOMAIN items[j]}}

Semantic ==
  /\ pc = "semantic" /\ ~raised
  /\ \E reply \in SemanticReplies :
       \E out \in {semantic_node(state, reply)} :
           /\ oracleCalls' = oracleCalls + out.calls
           /\ failed' = failed \cup Failure("semantic", out.calls, reply)
           /\ raised' = out.raised
           /\ rawFixes' =
                rawFixes \cup
                  (IF out.calls = 0 THEN {} ELSE RawSemanticFixes(reply))
           /\ IF out.raised
              THEN UNCHANGED <<state, pc, ran>>
              ELSE Advance("semantic", out.update)
  /\ UNCHANGED <<guardOut, scanOut, scanCalls, cleanFixes, use_model_slm,
                 apiVars, sanVars, fnVars,
                 audits>>

Interaction ==
  /\ pc = "interaction" /\ ~raised
  /\ \E out \in {interaction_node(state)} :
       Advance("interaction", out.update)
  /\ UNCHANGED <<guardOut, scanOut, scanCalls, oracleCalls, failed, rawFixes,
                 cleanFixes, raised, use_model_slm, apiVars, sanVars, fnVars,
                 audits>>

Vision ==
  /\ pc = "vision" /\ ~raised
  /\ \E reply \in VisionReplies :
       \E out \in {vision_analyzer_node(state, reply)} :
           /\ oracleCalls' = oracleCalls + out.calls
           /\ failed' = failed \cup Failure("vision", out.calls, reply)
           /\ Advance("vision", out.update)
  /\ UNCHANGED <<guardOut, scanOut, scanCalls, rawFixes, cleanFixes, raised,
                 use_model_slm, apiVars, sanVars, fnVars,
                 audits>>

Fixer ==
  /\ pc = "fixer" /\ ~raised
  /\ \E replies \in [1..CountUnfixed(AllIssues(state)) -> FixerReplies] :
       \E out \in {fixer_node(state, replies)} :
           /\ oracleCalls' = oracleCalls + out.calls
           /\ failed' =
                failed \cup
                  (IF \E n \in 1..out.calls : replies[n].kind # "object"
                   THEN {"fixer"} ELSE {})
           /\ rawFixes' = rawFixes \cup out.raw
           /\ cleanFixes' = cleanFixes \cup out.clean
           /\ raised' = out.raised
           /\ IF out.raised
              THEN UNCHANGED <<state, pc, ran>>
              ELSE /\ state' = ApplyUpdate(Merge(state, out.inplace),
                                           out.update)
                   /\ pc' = NextNode("fixer")
                   /\ ran' = Append(ran, "fixer")
  /\ UNCHANGED <<guardOut, scanOut, scanCalls, use_model_slm, apiVars,
                 sanVars, fnVars,
                 audits>>

Next ==
  \/ InputGuard
  \/ Scanner
  \/ Critic
  \/ Semantic
  \/ Interaction
  \/ Vision
  \/ Fixer

Spec == Init /\ [][Next]_vars

\* A node that can run does run: ainvoke drives the chain to its end.
FairSpec == Spec /\ WF_vars(Next)

\* ------------------------------------------------------- the audit endpoint
MaxRequests == 2

NoRun ==
  [final_state |-> EmptyDict, guard |-> EmptyDict, scan |-> EmptyDict,
   scans |-> 0, calls |-> 0, ran |-> <<>>]

\* start_audit for req.  io says whether the two reads of Redis succeed
\* (get1, get2) and whether the two writes do (set1, set2); world is what
\* the scan and the oracle give if the graph runs; now stamps the writes.
\* The database calls are wrapped in try/except and do not change the
\* response.
\* start_audit from the return of audit_graph.ainvoke on: the content cache
\* is read and, on a miss, the response is built and the two caches written.
AfterGraph(req, client, store, memory, now, run, io) ==
  LET final_state == run.final_state
      report == Get(final_state, "final_report", <<>>)
      dom_hash == Get(final_state, "dom_hash", <<>>)
      cached == get_cached_result(client, io.get2, store, memory, req.url,
                                  dom_hash)
  IN  IF ~req.force_rescan /\ Truthy(dom_hash) /\ cached.hit
      THEN [response |->
              Merge([status |-> "success", url |-> req.url, cached |-> TRUE],
                    cached.value),
            store |-> store, memory |-> memory, served |-> "content",
            run |-> run]
      ELSE
        LET summary == [total |-> Len(report)]
            entry == [summary |-> summary, report |-> report]
            w1 == IF Truthy(dom_hash)
                  THEN save_cached_result(client, io.set1, store, memory,
                                          req.url, dom_hash, entry, now)
                  ELSE [store |-> store, memory |-> memory]
            w2 == IF Truthy(dom_hash)
                  THEN save_recent_audit(client, io.set2, w1.store,
                                         w1.memory, req.url, entry,
                                         RECENT_TTL, now)
                  ELSE w1
        IN  [response |->
               [status |-> "success", url |-> req.url, cached |-> FALSE,
                summary |-> summary, report |-> report],
             store |-> w2.store, memory |-> w2.memory, served |-> "fresh",
             run |-> run]

\* start_audit up to the call of audit_graph.ainvoke: the answer from the
\* recency cache, if it has one.
RecentAnswer(req, client, store, memory, io) ==
  LET recent_audit ==
        get_recent_audit(client, io.get1, store, memory, req.url)
  IN  [hit |-> ~req.force_rescan /\ recent_audit.hit,
       response |->
         Merge([status |-> "success", url |-> req.url, cached |-> TRUE],
               recent_audit.value)]

start_audit(USE_MODEL_SLM, req, client, store, memory, now, world, io) ==
  The({IF recent.hit
       THEN [response |-> recent.response, store |-> store,
             memory |-> memory, served |-> "recent", run |-> NoRun]
       ELSE The({AfterGraph(req, client, store, memory, now, run, io) :
                   run \in {audit_graph_ainvoke(USE_MODEL_SLM,
                                                [url |-> req.url], world)}}) :
         recent \in {RecentAnswer(req, client, store, memory, io)}})

GraphIdle ==
  /\ state = EmptyDict
  /\ pc = "idle"
  /\ ran = <<>>
  /\ guardOut = EmptyDict
  /\ scanOut = EmptyDict
  /\ scanCalls = 0
  /\ oracleCalls = 0
  /\ failed = {}
  /\ rawFixes = {}
  /\ cleanFixes = {}
  /\ raised = FALSE

ApiInit ==
  /\ use_model_slm \in BOOLEAN
  /\ redis_client \in BOOLEAN
  /\ redis = EmptyDict
  /\ memory_cache = EmptyDict
  /\ request = NoRequest
  /\ response = NoResponse
  /\ served = "none"
  /\ nreq = 0
  /\ GraphIdle
  /\ SanIdle
  /\ FnIdle
  /\ ConcIdle

\* Redis answers the calls of a request or fails them; without a client
\* there is no call to fail.
Flags == IF redis_client THEN BOOLEAN ELSE {TRUE}

\* One request, from its arrival to its response.
StartAudit ==
  /\ nreq < MaxRequests
  /\ \E url \in ApiUrls, force_rescan \in BOOLEAN, world \in ApiWorlds,
        get_ok \in Flags, set_ok \in Flags :
       \E req \in {[url |-> url, force_rescan |-> force_rescan]} :
       \E out \in {start_audit(use_model_slm, req, redis_client, redis,
                               memory_cache, nreq + 1, world,
                               [get1 |-> get_ok, get2 |-> get_ok,
                                set1 |-> set_ok, set2 |-> set_ok])} :
         /\ request' = req
         /\ response' = out.response
         /\ served' = out.served
         /\ redis' = out.store
         /\ memory_cache' = out.memory
         /\ state' = out.run.final_state
         /\ pc' = IF out.run.ran = <<>> THEN "idle" ELSE "END"
         /\ ran' = out.run.ran
         /\ guardOut' = out.run.guard
         /\ scanOut' = out.run.scan
         /\ scanCalls' = out.run.scans
         /\ oracleCalls' = out.run.calls
  /\ nreq' = nreq + 1
  /\ UNCHANGED <<failed, rawFixes, cleanFixes, raised, use_model_slm,
                 redis_client, sanVars, fnVars,
                 audits>>

\* A key of Redis reaches the end of its time to live.
Expire ==
  /\ \E k \in DOMAIN redis :
       /\ MayExpire(redis, k)
       /\ redis' = Del(redis, k)
  /\ UNCHANGED <<use_model_slm, graphVars, redis_client, memory_cache,
                 request, response, served, nreq, sanVars, fnVars,
                 audits>>

ApiNext ==
  \/ StartAudit
  \/ Expire

ApiSpec == ApiInit /\ [][ApiNext]_vars

\* ------------------------------------------- specification of the sanitizer
SanInit ==
  /\ fix_in \in Payloads
  /\ fix_out = <<>>
  /\ san_pc = "call"
  /\ use_model_slm = FALSE
  /\ GraphIdle
  /\ ApiIdle
  /\ FnIdle
  /\ ConcIdle

ValidateFix ==
  /\ san_pc = "call"
  /\ fix_out' = validate_fix(fix_in)
  /\ san_pc' = "return"
  /\ UNCHANGED <<fix_in, use_model_slm, graphVars, apiVars, fnVars,
                 audits>>

SanNext == ValidateFix

SanSpec == SanInit /\ [][SanNext]_vars

\* ------------------------------------- specification of the functions alone
\* One call of one function of the program, on an input drawn from a bounded
\* set: call holds the function and its arguments, ret what it returned.
MaxIssues == 3

\* All sequences of at most n elements of S.
RECURSIVE SeqsUpTo(_, _)
SeqsUpTo(S, n) ==
  IF n = 0 THEN {<<>>}
  ELSE The({shorter \cup {Append(q, x) : q \in shorter, x \in S} :
              shorter \in {SeqsUpTo(S, n - 1)}})

Returned(op) == call.op = op /\ ret.done

FnUnchanged ==
  UNCHANGED <<call, use_model_slm, graphVars, apiVars, sanVars, audits>>

\* Findings as enrich_with_wcag leaves them, for the grouper: two rules, with
\* no, one or three evidence nodes, and a finding with no key at all.
EvNode(n) == [html |-> <<"<img>", n>>, target |-> T("img")]

GroupFindings ==
  {[rule |-> T(r), nodes_affected |-> Len(ns), specific_nodes |-> ns] :
     r \in {"image-alt", "label"},
     ns \in {<<>>, <<EvNode(1)>>, <<EvNode(2), EvNode(3), EvNode(4)>>,
             <<EvNode(5), EvNode(6), EvNode(7)>>}}
    \cup {EmptyDict}

CritiqueCalls ==
  {[op |-> "critique_issues", issues |-> l] :
     l \in SeqsUpTo(GroupFindings, MaxIssues)}

CritiqueIssues ==
  /\ call.op = "critique_issues" /\ ret = Pending
  /\ ret' = Ret(critique_issues(call.issues))
  /\ FnUnchanged

\* Findings for the classifier: the rules, impacts and selectors the four
\* rules of the heuristic filter tell apart.
MaxTier == 2

TierFinding(id, impact, selector, nodes) ==
  [id |-> T(id), impact |-> T(impact), selector |-> selector, nodes |-> nodes]

TierFindings ==
  {TierFinding("image-alt", "critical", T("img"), <<EvNode(1)>>),
   TierFinding("label", "serious", T("img"), <<EvNode(2)>>),
   TierFinding("color-contrast", "minor", T("p"), <<EvNode(3)>>),
   TierFinding("color-contrast", "serious", T("p"), <<EvNode(4)>>),
   TierFinding("region", "moderate", T("div"), <<EvNode(5)>>),
   TierFinding("link-name", "serious", <<>>, <<EvNode(6)>>),
   TierFinding("link-name", "serious", T("a"), <<>>),
   [id |-> T("list"), specific_nodes |-> <<EvNode(7)>>]}

HeuristicCalls ==
  {[op |-> "heuristic_filter", issues |-> l] :
     l \in SeqsUpTo(TierFindings, MaxIssues)}

HeuristicFilter ==
  /\ call.op = "heuristic_filter" /\ ret = Pending
  /\ ret' = Ret(heuristic_filter(call.issues))
  /\ FnUnchanged

FnTier2Replies ==
  Tier2Replies \cup {Object([keep_indices |-> <<>>]),
                     Object([keep_indices |-> <<1, 0>>]),
                     Object([keep_indices |-> <<0, 0>>])}

TierCalls(op) ==
  {[op |-> op, USE_MODEL_SLM |-> b, issues |-> l, reply |-> r] :
     b \in BOOLEAN, l \in SeqsUpTo(TierFindings, MaxTier),
     r \in FnTier2Replies}

ModelBasedFilter ==
  /\ call.op = "model_based_filter" /\ ret = Pending
  /\ ret' = Ret(model_based_filter(call.USE_MODEL_SLM, call.issues,
                                    call.reply))
  /\ FnUnchanged

FastCritique ==
  /\ call.op = "fast_critique" /\ ret = Pending
  /\ ret' = Ret(fast_critique(call.USE_MODEL_SLM, call.issues, call.reply))
  /\ FnUnchanged

\* Issues as they reach the fixer: one without a fix, one carrying a fix of
\* the semantic stage, one carrying the placeholder, one of the visual stage.
MaxFixIssues == 2

FixerIssues ==
  {[rule |-> T("image-alt"), category |-> T("syntax"),
    description |-> T("Images must have alternate text"),
    html_snippet |-> T("<img src=\"a.png\">")],
   SemanticIssue(SI_full),
   [rule |-> T("label"), category |-> T("syntax"),
    ai_fixed_code |-> T("<!-- Fix -->")],
   VisionIssue(VI_full)}

FixerCalls ==
  {[op |-> "fixer_node", state |-> [critiqued_issues |-> l], replies |-> r] :
     l \in SeqsUpTo(FixerIssues, MaxFixIssues),
     r \in [1..MaxFixIssues -> FixerReplies]}

FixerNode ==
  /\ call.op = "fixer_node" /\ ret = Pending
  /\ ret' = Ret(fixer_node(call.state, call.replies))
  /\ FnUnchanged

\* fixer_node on the states the stages before it leave: the syntax issues of
\* critic_node, the visual issues of vision_analyzer_node, the semantic issues
\* of semantic_node and the interaction issues of interaction_node, with the
\* interactive elements captured by the scan.
VI_quoted ==
  [description |->
     <<"T", "h", "e", " ", "'", "B", "u", "y", "'", " ", "b", "u", "t", "t",
       "o", "n", " ", "i", "s", " ", "f", "a", "i", "n", "t">>,
   explanation |-> T("Contrast ratio below 4.5:1")]

BuyButton ==
  [tag |-> T("button"), text |-> <<"B", "U", "Y">>,
   html |-> T("<button class=\"cta\">BUY</button>")]

StageStates ==
  {[critiqued_issues |-> TagAll(critique_issues(raw)),
    vision_issues |-> VisionIssues(seen),
    semantic_issues |-> SemanticIssues(said),
    interaction_issues |->
      interaction_node([tab_log |-> log]).update.interaction_issues,
    dom_content |-> [interactive |-> <<BuyButton>>]] :
     raw \in {<<>>, <<V_image_alt>>, <<V_link_name, V_image_alt>>},
     seen \in {<<>>, <<VI_quoted>>, <<VI_full, VI_quoted>>},
     said \in {<<>>, <<SI_full>>, <<SI_nullfix>>},
     log \in {<<>>, TraceShort}}

StageReplies ==
  {CallFailure,
   Object([explanation |-> T("Add a name"), fixed_code |-> BtnFix]),
   Object([fixed_code |-> None])}

StageFixerCalls ==
  UNION {{[op |-> "fixer_node_staged", state |-> st, replies |-> r] :
            r \in [1..CountUnfixed(AllIssues(st)) -> StageReplies]} :
         st \in StageStates}

FixerNodeStaged ==
  /\ call.op = "fixer_node_staged" /\ ret = Pending
  /\ ret' = Ret(fixer_node(call.state, call.replies))
  /\ FnUnchanged

\* The three contextual analyzers run one after the other, in any order, on
\* the state the scan and the critic leave, each return written to the state.
IngestedStates ==
  {[url |-> U_ok, raw_violations |-> <<>>, critiqued_issues |-> <<>>,
    dom_hash |-> Sha256Hex(HTML_A), screenshot_b64 |-> shot,
    dom_content |-> [links |-> links, headings |-> <<>>],
    tab_log |-> log] :
     shot \in {None, T("iVBORw0KGgo=")},
     links \in {<<>>, <<Link1>>},
     log \in {<<>>, TraceShort}}

AnalyzerOrders ==
  {order \in [1..3 -> {"semantic", "interaction", "vision"}] :
     \A i, j \in 1..3 : order[i] = order[j] => i = j}

AnalyzerReplies(key, items) ==
  {CallFailure, Malformed, Object(EmptyDict)}
    \cup {Object([k \in {key} |-> l]) : l \in items}

AnalyzerCalls ==
  {[op |-> "analyzers", state |-> st, order |-> order, sem |-> sem,
    vis |-> vis] :
     st \in IngestedStates, order \in AnalyzerOrders,
     sem \in AnalyzerReplies("issues", {<<SI_full>>, <<SI_nullfix, SI_bare>>}),
     vis \in AnalyzerReplies("vision_issues", {<<VI_full>>, <<VI_bare>>})}

RunAnalyzer(node, st, sem, vis) ==
  CASE node = "semantic" -> semantic_node(st, sem).update
    [] node = "interaction" -> interaction_node(st).update
    [] node = "vision" -> vision_analyzer_node(st, vis).update

RECURSIVE AnalyzersFrom(_, _, _, _, _)
AnalyzersFrom(st, order, i, sem, vis) ==
  IF i > Len(order) THEN st
  ELSE AnalyzersFrom(ApplyUpdate(st, RunAnalyzer(order[i], st, sem, vis)),
                     order, i + 1, sem, vis)

Analyzers ==
  /\ call.op = "analyzers" /\ ret = Pending
  /\ ret' = Ret(AnalyzersFrom(call.state, call.order, 1, call.sem, call.vis))
  /\ FnUnchanged

\* Two audits one after the other on an empty cache: the first stores its
\* result with save_cached_result, the second reads with get_cached_result.
\* U_long1 and U_long2 are URLs of more than 100 characters that differ after
\* the 100th only.
LongPath ==
  "/catalogue/accessibility/reports/2024/quarter-3/dept/finance/annual-return?page=0"
U_long1 == [scheme |-> "https://", netloc |-> <<"example.com">>,
            path |-> LongPath, tail |-> "1"]
U_long2 == [U_long1 EXCEPT !.tail = "2"]

CachePages ==
  {[url |-> u, dom_hash |-> f] :
     u \in {U_ok, U_long1, U_long2},
     f \in {Sha256Hex(HTML_A), Sha256Hex(HTML_B)}}

\* The result of the audit of a page, labelled with the page it is of.
AuditResult(page) ==
  [summary |-> [total |-> 1],
   report |-> <<[rule |-> T("image-alt"), category |-> T("syntax"),
                 page |-> page]>>]

ContentCacheCalls ==
  {[op |-> "content_cache", client |-> c, first |-> p, second |-> q] :
     c \in BOOLEAN, p \in CachePages, q \in CachePages}

ContentCache ==
  /\ call.op = "content_cache" /\ ret = Pending
  /\ \E w \in {save_cached_result(call.client, TRUE, EmptyDict, EmptyDict,
                                  call.first.url, call.first.dom_hash,
                                  AuditResult(call.first), 0)} :
       ret' = Ret(get_cached_result(call.client, TRUE, w.store, w.memory,
                                    call.second.url, call.second.dom_hash))
  /\ FnUnchanged

\* interaction_node on every keyboard-focus trace of at most MaxTrace entries.
MaxTrace == 5

TraceEntries ==
  {[tag |-> T("A"), text |-> T("Home"), id |-> T("x")],
   [tag |-> T("A"), text |-> T("Buy"), id |-> T("y")],
   [tag |-> T("A"), text |-> T("More"), id |-> <<>>],
   [tag |-> T("DIV"), text |-> T("Menu"), id |-> <<>>],
   [tag |-> T("BODY"), text |-> <<>>, id |-> <<>>]}

InteractionCalls ==
  {[op |-> "interaction_node", state |-> [tab_log |-> log]] :
     log \in SeqsUpTo(TraceEntries, MaxTrace)}

InteractionNode ==
  /\ call.op = "interaction_node" /\ ret = Pending
  /\ ret' = Ret(interaction_node(call.state).update.interaction_issues)
  /\ FnUnchanged

\* compute_dom_hash on a markup and on the same markup with one fragment
\* inserted: an element, a comment or an attribute.  The second fetch of the
\* URL then reads the content cache that the first one wrote.
InsertAt(s, i, frag) == SubSeq(s, 1, i) \o frag \o SubSeq(s, i + 1, Len(s))

SessionId == [k \in 1..SessionIdLen |-> IF k % 2 = 0 THEN "7" ELSE "c"]

BlockFragments ==
  {LIT_SCRIPT_OPEN \o <<">", "t", "(", ")">> \o LIT_SCRIPT_CLOSE,
   LIT_IFRAME_OPEN \o <<" ", "s", "r", "c", "=", DQ, "a", "d", DQ, ">">>
     \o LIT_IFRAME_CLOSE,
   LIT_COMMENT_OPEN \o <<" ", "a", "d", " ">> \o LIT_COMMENT_CLOSE}

AttrFragments ==
  {<<" ">> \o LIT_DATA \o <<"t", "=", DQ, "9", DQ>>,
   <<" ">> \o LIT_DATA \o <<"t", "=", SQ, "9", SQ>>,
   <<" ">> \o LIT_DATA \o <<"s", "=", DQ>> \o SessionId \o <<DQ>>,
   <<" ">> \o LIT_ID \o SessionId \o <<DQ>>}

\* Between two tags or a tag and text.
BlockPositions(s) ==
  {i \in 0..Len(s) : i = 0 \/ i = Len(s) \/ s[i] = ">" \/ s[i + 1] = "<"}

\* At the end of an opening tag.
AttrPositions(s) ==
  {i \in 1..(Len(s) - 1) :
     /\ s[i + 1] = ">"
     /\ \E o \in 1..i :
          /\ s[o] = "<" /\ s[o + 1] # "/"
          /\ \A k \in (o + 1)..i : s[k] \notin {"<", ">"}}

DomEdits(s) ==
  {[frag |-> f, at |-> i] : f \in BlockFragments, i \in BlockPositions(s)}
    \cup {[frag |-> f, at |-> i] : f \in AttrFragments, i \in AttrPositions(s)}

DomHashCalls ==
  UNION {{[op |-> "compute_dom_hash", html |-> s, frag |-> e.frag,
           edited |-> InsertAt(s, e.at, e.frag)] : e \in DomEdits(s)} :
         s \in {HTML_A, HTML_B}}

ComputeDomHash ==
  /\ call.op = "compute_dom_hash" /\ ret = Pending
  /\ \E hash \in {[k \in {"html", "edited"} |-> compute_dom_hash(call[k])]} :
       \E w \in {save_cached_result(FALSE, TRUE, EmptyDict, EmptyDict, U_ok,
                                    hash.html, [summary |-> [total |-> 0]],
                                    0)} :
         ret' = Ret([first |-> hash.html, second |-> hash.edited,
                     cached |-> get_cached_result(FALSE, TRUE, w.store,
                                                  w.memory, U_ok,
                                                  hash.edited)])
  /\ FnUnchanged

FnCalls ==
  CritiqueCalls \cup HeuristicCalls \cup TierCalls("model_based_filter")
    \cup TierCalls("fast_critique") \cup FixerCalls \cup DomHashCalls
    \cup InteractionCalls \cup StageFixerCalls \cup AnalyzerCalls
    \cup ContentCacheCalls

FnInit ==
  /\ call \in FnCalls
  /\ ret = Pending
  /\ ConcIdle
  /\ use_model_slm = FALSE
  /\ GraphIdle
  /\ ApiIdle
  /\ SanIdle

FnNext ==
  \/ CritiqueIssues
  \/ HeuristicFilter
  \/ ModelBasedFilter
  \/ FastCritique
  \/ FixerNode
  \/ ComputeDomHash
  \/ InteractionNode
  \/ FixerNodeStaged
  \/ Analyzers
  \/ ContentCache

FnSpec == FnInit /\ [][FnNext]_vars

\* ------------------------------------------------ specification of the cache
\* The four functions of redis_cache.py called in any order on one URL, with
\* Redis answering or failing each call, and the stored text of a key
\* replaced by another writer of the store.
\* The fingerprint of the page: HTML_A holds nothing that is normalised away.
CacheHash == Sha256Hex(HTML_A)
CacheEntries ==
  {[summary |-> [total |-> 0], report |-> <<>>],
   [summary |-> [total |-> 1], report |-> <<[rule |-> T("image-alt")]>>]}

CacheInit ==
  /\ redis_client \in BOOLEAN
  /\ redis = EmptyDict
  /\ memory_cache = EmptyDict
  /\ request = NoRequest
  /\ response = NoResponse
  /\ served = "none"
  /\ nreq = 0
  /\ use_model_slm = FALSE
  /\ GraphIdle
  /\ SanIdle
  /\ FnIdle
  /\ ConcIdle

CacheUnchanged ==
  UNCHANGED <<use_model_slm, graphVars, redis_client, request, response,
              served, nreq, sanVars, audits>>

SaveCachedResult ==
  /\ \E result \in CacheEntries, set_ok \in BOOLEAN :
       \E w \in {save_cached_result(redis_client, set_ok, redis, memory_cache,
                                     U_ok, CacheHash, result, 0)} :
         /\ redis' = w.store
         /\ memory_cache' = w.memory
         /\ call' = [op |-> "save_cached_result",
                     key |-> _get_cache_key(U_ok, CacheHash),
                     result |-> result, ok |-> set_ok]
         /\ ret' = Ret(TRUE)
  /\ CacheUnchanged

SaveRecentAudit ==
  /\ \E result \in CacheEntries, set_ok \in BOOLEAN :
       \E w \in {save_recent_audit(redis_client, set_ok, redis, memory_cache,
                                    U_ok, result, RECENT_TTL, 0)} :
         /\ redis' = w.store
         /\ memory_cache' = w.memory
         /\ call' = [op |-> "save_recent_audit", key |-> _get_url_key(U_ok),
                     result |-> result, ok |-> set_ok]
         /\ ret' = Ret(TRUE)
  /\ CacheUnchanged

GetCachedResult ==
  /\ \E get_ok \in BOOLEAN :
       /\ call' = [op |-> "get_cached_result",
                   key |-> _get_cache_key(U_ok, CacheHash), ok |-> get_ok]
       /\ ret' = Ret(get_cached_result(redis_client, get_ok, redis,
                                       memory_cache, U_ok, CacheHash))
  /\ UNCHANGED <<redis, memory_cache>>
  /\ CacheUnchanged

GetRecentAudit ==
  /\ \E get_ok \in BOOLEAN :
       /\ call' = [op |-> "get_recent_audit", key |-> _get_url_key(U_ok),
                   ok |-> get_ok]
       /\ ret' = Ret(get_recent_audit(redis_client, get_ok, redis,
                                      memory_cache, U_ok))
  /\ UNCHANGED <<redis, memory_cache>>
  /\ CacheUnchanged

\* Another writer of the store leaves a text that is not JSON under a key.
Corrupt ==
  /\ \E k \in DOMAIN redis :
       /\ redis[k].data # Garbage
       /\ redis' = [redis EXCEPT ![k].data = Garbage]
  /\ call' = NoCall
  /\ ret' = Pending
  /\ UNCHANGED memory_cache
  /\ CacheUnchanged

CacheNext ==
  \/ SaveCachedResult
  \/ SaveRecentAudit
  \/ GetCachedResult
  \/ GetRecentAudit
  \/ Corrupt

CacheSpec == CacheInit /\ [][CacheNext]_vars

\* ------------------------------------------- two requests at the same time
\* start_audit is a coroutine of one event loop: between its entry and its
\* await of audit_graph.ainvoke, and between the return of ainvoke and its
\* own return, no other request runs; during the await any other may.  Each
\* request has its own AuditState; the caches are the module's.
Procs == {"a", "b"}
ConcUrls == {U_ok, U_long1, U_long2}
ConcWorlds == {Up(Page1), Down(Page1), Down(Page3), Down(ScanError)}
AllOk == [get1 |-> TRUE, get2 |-> TRUE, set1 |-> TRUE, set2 |-> TRUE]

AuditStart(url, world) ==
  [req |-> [url |-> url, force_rescan |-> FALSE], world |-> world,
   at |-> "entry", run |-> NoRun, response |-> NoResponse,
   served |-> "none", alone |-> NoResponse]

ConcInit ==
  /\ use_model_slm = FALSE
  /\ redis_client \in BOOLEAN
  /\ redis = EmptyDict
  /\ memory_cache = EmptyDict
  /\ request = NoRequest
  /\ response = NoResponse
  /\ served = "none"
  /\ nreq = 0
  /\ GraphIdle
  /\ SanIdle
  /\ FnIdle
  /\ \E ua \in ConcUrls, wa \in ConcWorlds, wb \in ConcWorlds :
     \E ub \in ConcUrls \ {ua} :
       audits = [p \in Procs |->
                   IF p = "a" THEN AuditStart(ua, wa)
                   ELSE AuditStart(ub, wb)]

ConcUnchanged ==
  UNCHANGED <<use_model_slm, graphVars, redis_client, request, response,
              served, nreq, sanVars, fnVars>>

\* From the entry of start_audit to the await of the graph, or to the return
\* with the answer of the recency cache.
AuditEntry(p) ==
  /\ audits[p].at = "entry"
  /\ \E recent \in {RecentAnswer(audits[p].req, redis_client, redis,
                                 memory_cache, AllOk)} :
       audits' =
         [audits EXCEPT
            ![p] = IF recent.hit
                   THEN [@ EXCEPT !.at = "done",
                                  !.response = recent.response,
                                  !.served = "recent"]
                   ELSE [@ EXCEPT !.at = "await"]]
  /\ UNCHANGED <<redis, memory_cache>>
  /\ ConcUnchanged

\* audit_graph.ainvoke runs on the request's own state and returns.  alone is
\* the response the request gets when no other request runs: on the caches
\* as they were at the start, where the recency cache has nothing for it.
AuditGraph(p) ==
  /\ audits[p].at = "await"
  /\ \E run \in {audit_graph_ainvoke(use_model_slm,
                                     [url |-> audits[p].req.url],
                                     audits[p].world)} :
       audits' =
         [audits EXCEPT
            ![p] = [@ EXCEPT
                      !.at = "resumed",
                      !.run = run,
                      !.alone = AfterGraph(audits[p].req, redis_client,
                                           EmptyDict, EmptyDict, 1, run,
                                           AllOk).response]]
  /\ UNCHANGED <<redis, memory_cache>>
  /\ ConcUnchanged

\* From the return of ainvoke to the return of start_audit.
AuditReturn(p) ==
  /\ audits[p].at = "resumed"
  /\ \E out \in {AfterGraph(audits[p].req, redis_client, redis,
                            memory_cache, 1, audits[p].run, AllOk)} :
       /\ audits' = [audits EXCEPT ![p] = [@ EXCEPT
                                             !.at = "done",
                                             !.response = out.response,
                                             !.served = out.served]]
       /\ redis' = out.store
       /\ memory_cache' = out.memory
  /\ ConcUnchanged

ConcNext ==
  \/ \E p \in Procs : AuditEntry(p)
  \/ \E p \in Procs : AuditGraph(p)
  \/ \E p \in Procs : AuditReturn(p)

ConcSpec == ConcInit /\ [][ConcNext]_vars

\* --------------------------------------------------------------- properties
IssueLists ==
  {"critiqued_issues", "vision_issues", "semantic_issues",
   "interaction_issues", "final_report"}

NoIssues(s) == \A k \in IssueLists : Get(s, k, <<>>) = <<>>

GuardRejected == "error" \in DOMAIN guardOut
ScanFailed == "error" \in DOMAIN scanOut

\* C1: in every run in which the input guard rejects the URL (returns an
\* error), the terminal state holds no issue: the syntax, semantic,
\* interaction and visual issue lists and the final report are empty.
C1_RejectedRunHasNoIssues ==
  (pc = "END" /\ GuardRejected) => NoIssues(state)

\* C2: every fix text of the final report that was taken from a reply of the
\* oracle has passed through validate_fix, whatever the category of its issue.
C2_ReportedFixesAreSanitized ==
  pc = "END" =>
    \A n \in 1..Len(Get(state, "final_report", <<>>)) :
      LET code == Get(state["final_report"][n], "ai_fixed_code", None)
      IN  code \in rawFixes => code \in cleanFixes

\* C3: when the scan returns an error, the run ends as a fatal error: the
\* terminal state carries an error and holds no issue.
C3_ScanFailureIsFatal ==
  (pc = "END" /\ ScanFailed) =>
    ("error" \in DOMAIN state /\ NoIssues(state))

\* C4: once the guard has set an error, every later stage is a no-op: it
\* makes no scan and no oracle call, adds no issue, and leaves the state
\* carrying the same error.
C4_StagesAfterErrorAreNoOps ==
  [][(GuardRejected /\ pc # "input_guard") =>
       /\ scanCalls' = scanCalls
       /\ oracleCalls' = oracleCalls
       /\ NoIssues(state')
       /\ "error" \in DOMAIN state'
       /\ state'["error"] = guardOut["error"]]_vars

\* C5: a request whose run ends in a fatal error (admission or ingestion) is
\* answered with one top-level error, never with a success response that
\* carries a report or a summary.
C5_FatalRunAnsweredWithError ==
  (pc = "END" /\ (GuardRejected \/ ScanFailed)) =>
    /\ response.status = "error"
    /\ "report" \notin DOMAIN response
    /\ "summary" \notin DOMAIN response

\* A <script>...</script> block, a javascript: scheme, an on*= handler
\* attribute occurs in the text.
HasScriptBlock(s) == \E i \in 1..Len(s) : ScriptMatchEnd(s, i) # 0
HasJsScheme(s) == \E i \in 1..Len(s) : MatchLit(s, i, LIT_JAVASCRIPT)
HasHandlerAttr(s) ==
  \E i \in 1..Len(s), q \in {DQ, SQ} : HandlerMatchEnd(s, i, q) # 0

\* C6: for every payload, the output of the sanitizer holds no
\* <script>...</script> block, no javascript: in any letter case and no
\* on*="..." or on*='...' handler attribute.
C6_OutputIsClean ==
  san_pc = "return" =>
    /\ ~HasScriptBlock(fix_out)
    /\ ~HasJsScheme(fix_out)
    /\ ~HasHandlerAttr(fix_out)

NothingToStrip(s) ==
  ~HasScriptBlock(s) /\ ~HasJsScheme(s) /\ ~HasHandlerAttr(s)

HasMarker(s) == s # <<>> /\ s[Len(s)] = MARKER
Body(s) == IF HasMarker(s) THEN SubSeq(s, 1, Len(s) - 1) ELSE s

\* C7: the sanitizer appends the marker if and only if stripping changed the
\* payload: a payload with nothing to strip comes back as it is, without the
\* marker, and <div onclick="evil()">Buy</div> comes back as <div>Buy</div>
\* followed by the marker.
C7_MarkerIffChanged ==
  san_pc = "return" =>
    /\ HasMarker(fix_out) <=> Body(fix_out) # fix_in
    /\ NothingToStrip(fix_in) => fix_out = fix_in
    /\ ~NothingToStrip(fix_in) => HasMarker(fix_out)
    /\ fix_in = DivEvil => fix_out = DivClean \o <<MARKER>>

C7_Witness ==
  /\ san_pc = "return"
  /\ fix_in = DivEvil
  /\ fix_out = DivClean \o <<MARKER>>

C8_Inv ==
  /\ ~raised
  /\ "error" \notin DOMAIN state
  /\ pc = "END" => ("final_report" \in DOMAIN state /\ ran = NodeOrder)

\* C8: every run reaches the terminal state with a final issue list,
\* whichever calls of the oracle fail or return malformed JSON: no node
\* raises, no failure sets the error of the state, and every node runs.
C8_RunReachesTerminalState == []C8_Inv /\ <>(pc = "END")

C8_Witness ==
  /\ pc = "END"
  /\ failed = {"critic", "semantic", "vision", "fixer"}
  /\ "final_report" \in DOMAIN state
  /\ state["final_report"] # <<>>

\* C9: in the terminal state every issue of the final report has an
\* ai_explanation and an ai_fixed_code that are not null, whatever the oracle
\* replied in the semantic, visual and fixer stages.
C9_ReportFieldsNonNull ==
  pc = "END" =>
    \A n \in 1..Len(Get(state, "final_report", <<>>)) :
      /\ Get(state["final_report"][n], "ai_explanation", None) # None
      /\ Get(state["final_report"][n], "ai_fixed_code", None) # None

\* C10: a request without force_rescan that is answered from the content
\* cache has run no stage of the graph and made no oracle call.
C10_ContentHitRunsNoStage ==
  (served = "content" /\ ~request.force_rescan) =>
    (ran = <<>> /\ oracleCalls = 0)


\* The list l in the order given by the permutation p of its indices.
Permuted(l, p) == [n \in 1..Len(l) |-> l[p[n]]]
Perms(n) == {p \in [1..n -> 1..n] : \A a, b \in 1..n : p[a] = p[b] => a = b}

\* The grouped record of rule_id in grouped, as the pair of its occurrence
\* count and the set of its evidence pairs; <<0, {}>> when there is none.
GroupOf(grouped, rule_id) ==
  LET idx == GroupIndex(grouped, rule_id)
  IN  IF idx = 0 THEN <<0, {}>>
      ELSE <<grouped[idx].total_occurrences,
             {grouped[idx].code_snippets[n] :
                n \in 1..Len(grouped[idx].code_snippets)}>>

\* C11: every grouped record returned by critique_issues holds at most 5
\* evidence pairs, whatever the findings per rule and the nodes per finding.
C11_EvidenceCapped ==
  Returned("critique_issues") =>
    \A n \in 1..Len(ret.val) : Len(ret.val[n].code_snippets) <= SnippetCap

\* C12: grouping any permutation of the same findings gives, for every rule,
\* the same occurrence count and the same set of evidence pairs.
C12_GroupingIgnoresOrder ==
  Returned("critique_issues") =>
    \A p \in Perms(Len(call.issues)) :
      \A n \in 1..Len(ret.val) :
        GroupOf(critique_issues(Permuted(call.issues, p)), ret.val[n].rule)
          = GroupOf(ret.val, ret.val[n].rule)


\* a is a sub-list of b: the elements of a are elements of b, in the order
\* they have in b, each position of b used at most once.
RECURSIVE IsSubList(_, _)
IsSubList(a, b) ==
  IF a = <<>> THEN TRUE
  ELSE IF b = <<>> THEN FALSE
  ELSE IF Head(a) = Head(b) /\ IsSubList(Tail(a), Tail(b)) THEN TRUE
  ELSE IsSubList(a, Tail(b))

\* The reply is outside the schema {keep_indices: int[]}, or the call failed.
OutsideSchema(reply) ==
  reply.kind # "object" \/ "keep_indices" \notin DOMAIN reply.data

\* The Tier 1 output that the call's Tier 2 stage is given.
Tier1Of(c) ==
  IF c.op = "fast_critique" THEN heuristic_filter(c.issues) ELSE c.issues

Tier2Ran ==
  (Returned("model_based_filter") \/ Returned("fast_critique"))
    /\ call.USE_MODEL_SLM /\ Tier1Of(call) # <<>>

\* C13: when the Tier 2 oracle call fails or its reply is outside the schema
\* {keep_indices: int[]}, Tier 2 returns the Tier 1 output unchanged.
C13_Tier2NoOpOutsideSchema ==
  (Tier2Ran /\ OutsideSchema(call.reply)) => ret.val.issues = Tier1Of(call)

\* C14: the Tier 2 output is a sub-list of the Tier 1 output in the same
\* order, whatever indices the oracle returns, and the oracle is not called
\* when the flag is off or the Tier 1 output is empty.
C14_Tier2OnlyShrinks ==
  (Returned("model_based_filter") \/ Returned("fast_critique")) =>
    /\ IsSubList(ret.val.issues, Tier1Of(call))
    /\ (~call.USE_MODEL_SLM \/ Tier1Of(call) = <<>>) => ret.val.calls = 0

\* Tier 2 ran on two findings with a reply naming a repeated, a negative and
\* an out-of-range index, and kept one finding.
C14_Witness ==
  /\ Tier2Ran
  /\ call.reply = Object([keep_indices |-> <<1, 7, -1, 1>>])
  /\ Len(Tier1Of(call)) = 2
  /\ Len(ret.val.issues) = 1

Populated(issue) ==
  LET code == Get(issue, "ai_fixed_code", None)
  IN  code # None /\ code # <<>> /\ code # T("<!-- Fix -->")

\* The second run of the fixer, on the issues of the report of the first.
SecondRun(report, replies) ==
  fixer_node([critiqued_issues |-> report], replies)

SecondReplies == [1..MaxFixIssues -> {CallFailure, Object([explanation |-> T("Add a name"), fixed_code |-> BtnFix])}]

\* C16 as stated: for every oracle response of the first run, a second run of
\* the fixer on the issues of its final report makes no oracle call and
\* returns the same report.
C16_SecondRunIsNoOp ==
  (Returned("fixer_node") /\ ~ret.val.raised) =>
    \A r \in SecondReplies :
      LET second == SecondRun(ret.val.update.final_report, r)
      IN  /\ second.calls = 0
          /\ second.update.final_report = ret.val.update.final_report

\* C16, amended: a second run of the fixer on its final report passes every
\* issue that carries a fix through unchanged and calls the oracle once for
\* each issue that carries none, and for no other.
C16_PopulatedFixIsKept ==
  (Returned("fixer_node") /\ ~ret.val.raised) =>
    \A r \in SecondReplies :
      LET report == ret.val.update.final_report
          second == SecondRun(report, r)
      IN  /\ Len(second.update.final_report) = Len(report)
          /\ second.calls
               = Cardinality({n \in 1..Len(report) : ~Populated(report[n])})
          /\ \A n \in 1..Len(report) :
               Populated(report[n]) =>
                 second.update.final_report[n] = report[n]

\* The first run took a fix from the oracle for one issue and passed another
\* issue, which carried a fix, through.
C16_Witness ==
  /\ Returned("fixer_node") /\ ~ret.val.raised
  /\ ret.val.calls = 1
  /\ Len(ret.val.update.final_report) = 2
  /\ \A n \in 1..2 : Populated(ret.val.update.final_report[n])
  /\ \E n \in 1..2 :
       ret.val.update.final_report[n].ai_fixed_code \in ret.val.clean


\* C17: the input guard returns an error for a URL that is empty, does not
\* begin with http:// or https://, or has a blocklist entry in its host, and
\* returns every other URL with no error; and in a run on a URL whose host is
\* malicious-site.com the guard rejects and no later stage does any work: no
\* scan, no oracle call, no issue.
C17_GuardRejectsAndStops ==
  (\E n \in 1..Len(ran) : ran[n] = "input_guard") =>
    LET url == Get(state, "url", EmptyUrl)
    IN  /\ GuardRejected <=>
             \/ url = EmptyUrl
             \/ url.scheme \notin {"http://", "https://"}
             \/ \E i \in 1..Len(url.netloc) : url.netloc[i] \in BLOCKED_DOMAINS
        /\ ~GuardRejected => guardOut = [url |-> url]
        /\ url = U_blocked =>
             /\ GuardRejected
             /\ scanCalls = 0 /\ oracleCalls = 0
             /\ NoIssues(state)


ReadReturned ==
  call.op \in {"get_cached_result", "get_recent_audit"} /\ ret.done

\* C18: a value that a failed write of the network store left in the
\* in-process mapping is returned by a later read of the same key while the
\* network store is still failing, for the content and the recency cache.
C18_FailedWriteIsReadBack ==
  (ReadReturned /\ redis_client /\ ~call.ok
     /\ call.key \in DOMAIN memory_cache) =>
    ret.val = Hit(memory_cache[call.key])

\* C19: a read of the content or the recency cache never raises: whether the
\* value is present, absent, undecodable, or the store fails the call, the
\* read returns the stored value or a miss.
C19_ReadsNeverRaise ==
  ReadReturned =>
    /\ "raises" \notin DOMAIN ret.val
    /\ \/ ret.val = Miss
       \/ /\ redis_client /\ call.ok /\ call.key \in DOMAIN redis
          /\ Decodes(redis[call.key].data)
          /\ ret.val = Hit(JsonLoads(redis[call.key].data))
       \/ /\ ~redis_client /\ call.key \in DOMAIN memory_cache
          /\ ret.val = Hit(memory_cache[call.key])

\* A read found an undecodable text under its key and returned a miss.
C19_Witness ==
  /\ ReadReturned /\ redis_client /\ call.ok
  /\ call.key \in DOMAIN redis
  /\ redis[call.key].data = Garbage
  /\ ret.val = Miss


\* C20: inserting a script block, an iframe, a comment, a data-* attribute or
\* an id attribute of 20 or more alphanumeric characters into a markup leaves
\* the fingerprint unchanged, and the second fetch gets a content-cache hit.
C20_EditsKeepFingerprint ==
  Returned("compute_dom_hash") =>
    /\ ret.val.second = ret.val.first
    /\ ret.val.cached.hit

\* The part of C20 that holds: every inserted fragment other than a data-*
\* attribute whose value is not in double quotes leaves the fingerprint
\* unchanged and gives the content-cache hit.
C20_DoubleQuotedEditsKeepFingerprint ==
  (Returned("compute_dom_hash") /\ (\A k \in DOMAIN call.frag : call.frag[k] # SQ)) =>
    /\ ret.val.second = ret.val.first
    /\ ret.val.cached.hit


TraceOf == call.state.tab_log
RulesOf(issues) == {issues[k].rule : k \in DOMAIN issues}
BodyFocusCount(log) ==
  Cardinality({k \in DOMAIN log : log[k].tag = T("BODY")})
HasNonInteractive(log) ==
  \E k \in DOMAIN log : log[k].tag \in NON_INTERACTIVE_TAGS
\* The positions of the trace whose id already occurred at an earlier one.
DuplicateAt(log) ==
  {j \in DOMAIN log :
     /\ Truthy(log[j].id)
     /\ \E k \in 1..(j - 1) : log[k].id = log[j].id}

\* C21: every keyboard-focus trace of fewer than 5 entries gets the
\* limited-keyboard-access issue.
C21_ShortTraceIsFlagged ==
  (Returned("interaction_node") /\ Len(TraceOf) < ShortTraceLen) =>
    T("limited-keyboard-access") \in RulesOf(ret.val)

\* C22: a trace of 1 to 4 entries with no duplicate id and no repeated focus
\* on the body yields exactly one issue, the limited-keyboard-access one.
C22_ShortCleanTraceOneIssue ==
  (/\ Returned("interaction_node")
   /\ Len(TraceOf) \in 1..(ShortTraceLen - 1)
   /\ DuplicateAt(TraceOf) = {}
   /\ BodyFocusCount(TraceOf) <= 1) =>
    /\ Len(ret.val) = 1
    /\ ret.val[1].rule = T("limited-keyboard-access")

\* C22 as amended: the same, for traces that also hold no entry whose tag is
\* one of the non-interactive element types.
C22_ShortCleanInteractiveTraceOneIssue ==
  (/\ Returned("interaction_node")
   /\ Len(TraceOf) \in 1..(ShortTraceLen - 1)
   /\ DuplicateAt(TraceOf) = {}
   /\ BodyFocusCount(TraceOf) <= 1
   /\ ~HasNonInteractive(TraceOf)) =>
    /\ Len(ret.val) = 1
    /\ ret.val[1].rule = T("limited-keyboard-access")

\* A trace of three interactive entries with distinct ids was analysed.
C22_Witness ==
  /\ Returned("interaction_node")
  /\ Len(TraceOf) = 3
  /\ DuplicateAt(TraceOf) = {}
  /\ BodyFocusCount(TraceOf) = 0
  /\ ~HasNonInteractive(TraceOf)
  /\ \E k \in DOMAIN TraceOf : Truthy(TraceOf[k].id)
  /\ Len(ret.val) = 1

\* C27: the Interaction analyzer emits at most one issue per rule, so at most
\* four issues with pairwise distinct rules, and the duplicate-id issue names
\* the id of the first duplicate met in trace order.
C27_OneIssuePerRule ==
  Returned("interaction_node") =>
    /\ Len(ret.val) <= 4
    /\ \A i, j \in DOMAIN ret.val :
         ret.val[i].rule = ret.val[j].rule => i = j
    /\ \A i \in DOMAIN ret.val :
         ret.val[i].rule = T("duplicate-id-focusable") =>
           /\ DuplicateAt(TraceOf) # {}
           /\ ret.val[i].html_snippet =
                T("<... id='") \o TraceOf[SetMin(DuplicateAt(TraceOf))].id
                  \o T("'>")

\* Two ids are duplicated in the trace and one duplicate-id issue came out.
C27_Witness ==
  /\ Returned("interaction_node")
  /\ Cardinality({TraceOf[j].id : j \in DuplicateAt(TraceOf)}) = 2
  /\ Cardinality({i \in DOMAIN ret.val :
                    ret.val[i].rule = T("duplicate-id-focusable")}) = 1


TextEqCI(a, b) ==
  Len(a) = Len(b) /\ \A k \in 1..Len(a) : Lower(a[k]) = Lower(b[k])

\* The report entry of the n-th visual issue of the state the fixer ran on.
VisualEntry(n) ==
  ret.val.update.final_report[Len(call.state.critiqued_issues) + n]

\* C25: a visual issue of the Visual stage whose description quotes the text
\* of a captured interactive element, whatever the letter case, is in the
\* final report with the element's markup as snippet and a selector naming
\* the element's tag and the quoted text.
C25_VisualIssueAdoptsElement ==
  Returned("fixer_node_staged") =>
    \A n \in DOMAIN call.state.vision_issues :
      \A j \in DOMAIN call.state.dom_content.interactive :
        LET v == call.state.vision_issues[n]
            el == call.state.dom_content.interactive[j]
            quoted == QuotedText(v.description)
        IN  (Truthy(quoted) /\ TextEqCI(quoted, el.text)) =>
              /\ VisualEntry(n).html_snippet = el.html
              /\ "selector" \in DOMAIN VisualEntry(n)
              /\ VisualEntry(n).selector =
                   T("<") \o el.tag \o T("> containing '") \o quoted
                     \o T("'")

\* The rule and the category of every issue of a list, in order.
Labels(issues) ==
  [k \in DOMAIN issues |->
     <<Get(issues[k], "rule", None), Get(issues[k], "category", None)>>]

\* C29: the final report has one entry per issue of the four category lists,
\* in the order syntax, visual, semantic, interaction, each with the rule and
\* the category its stage gave it, whatever the oracle answers.
C29_FixerKeepsIssues ==
  Returned("fixer_node_staged") =>
    /\ ~ret.val.raised
    /\ Labels(ret.val.update.final_report) =
         Labels(call.state.critiqued_issues \o call.state.vision_issues
                  \o call.state.semantic_issues
                  \o call.state.interaction_issues)
    /\ \A k \in DOMAIN call.state.critiqued_issues :
         ret.val.update.final_report[k].category = T("syntax")

\* The fixer ran on a state with issues of all four categories, two of them
\* sent to the oracle, whose first call failed.
C29_Witness ==
  /\ Returned("fixer_node_staged")
  /\ call.state.critiqued_issues # <<>>
  /\ call.state.vision_issues # <<>>
  /\ call.state.semantic_issues # <<>>
  /\ call.state.interaction_issues # <<>>
  /\ ret.val.calls = 2
  /\ call.replies[1] = CallFailure


\* The findings of the list at the positions of keep, in order.
RECURSIVE SelectFrom(_, _, _)
SelectFrom(issues, i, keep) ==
  IF i > Len(issues) THEN <<>>
  ELSE (IF i \in keep THEN <<issues[i]>> ELSE <<>>)
         \o SelectFrom(issues, i + 1, keep)

\* Dropped on its own account: a region finding, a minor contrast finding or
\* a finding without evidence nodes.
LowValue(finding) ==
  \/ Get(finding, "id", <<>>) = T("region")
  \/ /\ Get(finding, "id", <<>>) = T("color-contrast")
     /\ Get(finding, "impact", <<>>) = T("minor")
  \/ /\ Get(finding, "nodes", <<>>) = <<>>
     /\ Get(finding, "specific_nodes", <<>>) = <<>>

SameSelector(a, b) ==
  /\ Truthy(Get(a, "selector", <<>>))
  /\ Get(a, "selector", <<>>) = Get(b, "selector", <<>>)

\* C26: the Tier 1 output is the input without the region findings, the
\* minor contrast findings, the findings without evidence nodes and the
\* findings whose selector occurred on an earlier input finding.
C26_Tier1RemovesExactly ==
  Returned("heuristic_filter") =>
    ret.val =
      SelectFrom(call.issues, 1,
                 {i \in DOMAIN call.issues :
                    /\ ~LowValue(call.issues[i])
                    /\ ~\E j \in 1..(i - 1) :
                          SameSelector(call.issues[i], call.issues[j])})

\* The positions Tier 1 keeps when a selector counts as met only on a finding
\* that was itself kept.
RECURSIVE KeptUpTo(_, _)
KeptUpTo(issues, n) ==
  IF n = 0 THEN {}
  ELSE LET before == KeptUpTo(issues, n - 1)
       IN  IF /\ ~LowValue(issues[n])
              /\ ~\E j \in before : SameSelector(issues[n], issues[j])
           THEN before \cup {n}
           ELSE before

\* C26 as amended: the same, a selector counting as already met only when it
\* occurred on an earlier finding that was kept.
C26_Tier1RemovesExactlyAfterKept ==
  Returned("heuristic_filter") =>
    ret.val =
      SelectFrom(call.issues, 1, KeptUpTo(call.issues, Len(call.issues)))

\* A finding was kept although its selector occurred on an earlier finding,
\* a dropped one, and a later finding with the selector was removed.
C26_Witness ==
  /\ Returned("heuristic_filter")
  /\ Len(call.issues) = 3
  /\ LowValue(call.issues[1])
  /\ SameSelector(call.issues[2], call.issues[1])
  /\ SameSelector(call.issues[3], call.issues[2])
  /\ ~LowValue(call.issues[3])
  /\ ret.val = <<call.issues[2]>>


AnalyzerFields == {"semantic_issues", "interaction_issues", "vision_issues"}

\* C23: in each of the six orders the three analyzers leave the issue lists
\* each of them computes from the ingested evidence alone, and no other field
\* of the state is written.
C23_AnalyzersCommute ==
  Returned("analyzers") =>
    /\ DOMAIN ret.val = DOMAIN call.state \cup AnalyzerFields
    /\ \A k \in DOMAIN call.state \ AnalyzerFields :
         ret.val[k] = call.state[k]
    /\ ret.val.semantic_issues =
         semantic_node(call.state, call.sem).update.semantic_issues
    /\ ret.val.interaction_issues =
         interaction_node(call.state).update.interaction_issues
    /\ ret.val.vision_issues =
         vision_analyzer_node(call.state, call.vis).update.vision_issues

\* The visual stage ran first and the semantic stage last, and each of the
\* three stages found an issue.
C23_Witness ==
  /\ Returned("analyzers")
  /\ call.order = <<"vision", "interaction", "semantic">>
  /\ ret.val.semantic_issues # <<>>
  /\ ret.val.interaction_issues # <<>>
  /\ ret.val.vision_issues # <<>>


\* C30: a content-cache hit for a URL and a fingerprint returns only a result
\* stored by an audit of the same URL with the same fingerprint.
C30_ContentHitIsOwnEntry ==
  (Returned("content_cache") /\ ret.val.hit) =>
    /\ call.second = call.first
    /\ ret.val.value = AuditResult(call.second)


\* The request just answered ran the graph and the run was rejected by the
\* Input Guard or failed to load the page.
RunFailed ==
  /\ ran # <<>>
  /\ "error" \in DOMAIN guardOut \/ "error" \in DOMAIN scanOut

\* C28: a request whose run ends with an admission error or an ingestion
\* error writes nothing to the content cache or the recency cache.
C28_FailedRunWritesNothing == [][(nreq' = nreq + 1 /\ RunFailed') => UNCHANGED <<redis, memory_cache>>]_vars


\* C24: of two requests for different URLs answered at the same time, in any
\* interleaving, each gets the response it gets when it runs alone on the
\* same caches.
C24_ConcurrentAuditsAreIsolated ==
  \A p \in DOMAIN audits :
    audits[p].at = "done" => audits[p].response = audits[p].alone

=============================================================================
